---- MODULE Spec2Model ----
(***************************************************************************)
(* A model of twitter-scraper-mcp's server.py: the tool dispatcher         *)
(* (TwitterMCPServer.execute_tool), the resource reader                    *)
(* (handle_read_resource) and the credential-scoped client cache           *)
(* (TwitterMCPServer._ensure_client) behind one asyncio.Lock.              *)
(*                                                                         *)
(* Every call runs as a task on one cooperative scheduler: a step of the   *)
(* model is the code a task runs between two suspension points.  The       *)
(* suspension points are the lock's wait queue, the identity probe         *)
(* (client.user_id) and the client's network operations.                   *)
(***************************************************************************)
EXTENDS Integers, Sequences, FiniteSets, TLC

\* Bounds of the model: the tasks that run calls side by side, and the
\* Client objects they construct in all.
NumTasks == 2
MaxClients == 2

Tasks == 1..NumTasks

(***************************************************************************)
(* Python values.                                                          *)
(***************************************************************************)
\* Python's None where a string is expected (os.getenv of an unset name).
PyNone == "<None>"

\* `v is None` in place of `not v`.
IsNone(v) == v = PyNone

\* `not v` for v a string or None.
Falsy(v) == v = PyNone \/ v = ""

\* An argument value: a str, an int or None.
StrVal(s) == [t |-> "str", s |-> s, n |-> 0]
IntVal(n) == [t |-> "int", s |-> "", n |-> n]
NoneVal == [t |-> "none", s |-> "", n |-> 0]

\* Truthiness of an argument value (the `or` of line 315).
Truthy(v) == CASE v.t = "str" -> v.s # ""
               [] v.t = "int" -> v.n # 0
               [] OTHER -> FALSE

\* The argument mappings a caller may pass: None instead of a mapping, the
\* empty mapping, a mapping with every field a handler reads, and one whose
\* tweet_input is not a string.
ArgsNone == [ismap |-> FALSE, d |-> <<>>]
ArgsEmpty == [ismap |-> TRUE, d |-> <<>>]
ArgsFull == [ismap |-> TRUE,
             d |-> [username |-> StrVal("jack"), tweet_input |-> StrVal("20"),
                    query |-> StrVal("python")]]
ArgsIllTyped == [ismap |-> TRUE,
                 d |-> [username |-> IntVal(7), tweet_input |-> IntVal(20),
                        query |-> NoneVal]]
Arguments == {ArgsNone, ArgsEmpty, ArgsFull, ArgsIllTyped}

\* The outcome of evaluating a Python expression: a value or an exception.
Val(v) == [ok |-> TRUE, v |-> v, exc |-> ""]
Exc(msg) == [ok |-> FALSE, v |-> NoneVal, exc |-> msg]

\* arguments[key]
Subscript(args, key) ==
    IF ~args.ismap THEN Exc("'NoneType' object is not subscriptable")
    ELSE IF key \notin DOMAIN args.d THEN Exc("'" \o key \o "'")
    ELSE Val(args.d[key])

\* arguments.get(key, default)
Get(args, key, default) ==
    IF ~args.ismap THEN Exc("'NoneType' object has no attribute 'get'")
    ELSE IF key \notin DOMAIN args.d THEN Val(default)
    ELSE Val(args.d[key])

(***************************************************************************)
(* Text: str.lower and the substring test of the tests' assertions.        *)
(***************************************************************************)
Upper == "ABCDEFGHIJKLMNOPQRSTUVWXYZ"
LowerLetters == "abcdefghijklmnopqrstuvwxyz"

\* str.lower() on the ASCII letters, letter by letter.
LowerOf == [c \in {SubSeq(Upper, i, i) : i \in 1..26} |->
              LET i == CHOOSE j \in 1..26 : SubSeq(Upper, j, j) = c
              IN SubSeq(LowerLetters, i, i)]

LowerChar(c) == IF c \in DOMAIN LowerOf THEN LowerOf[c] ELSE c

RECURSIVE LowerFrom(_, _)
LowerFrom(s, i) == IF i > Len(s) THEN ""
                   ELSE LowerChar(SubSeq(s, i, i)) \o LowerFrom(s, i + 1)

Lower(s) == LowerFrom(s, 1)

\* sub in s
Contains(s, sub) ==
    \E i \in 1..(Len(s) - Len(sub) + 1) : SubSeq(s, i, i + Len(sub) - 1) = sub

\* s.lstrip("/")
RECURSIVE LStripSlash(_)
LStripSlash(s) == IF s # "" /\ SubSeq(s, 1, 1) = "/"
                  THEN LStripSlash(SubSeq(s, 2, Len(s)))
                  ELSE s

(***************************************************************************)
(* _parse_tweet_id: the resolver of tweet identifiers.                     *)
(***************************************************************************)
Char(s, i) == SubSeq(s, i, i)

DigitChars == {Char("0123456789", i) : i \in 1..10}

\* s.isdigit()
isdigit(s) == s # "" /\ \A i \in 1..Len(s) : Char(s, i) \in DigitChars

\* The run of digits that starts at position i of s (empty if none does):
\* what a greedy \d+ or \d* takes there.
RECURSIVE DigitRun(_, _)
DigitRun(s, i) == IF i <= Len(s) /\ Char(s, i) \in DigitChars
                  THEN Char(s, i) \o DigitRun(s, i + 1)
                  ELSE ""

\* re.sub(r'\D', '', s), from position i on.
RECURSIVE DigitsFrom(_, _)
DigitsFrom(s, i) == IF i > Len(s) THEN ""
                    ELSE IF Char(s, i) \in DigitChars
                    THEN Char(s, i) \o DigitsFrom(s, i + 1)
                    ELSE DigitsFrom(s, i + 1)

digits_only(s) == DigitsFrom(s, 1)

\* s has `piece` at position i.
HasAt(s, i, piece) ==
    i + Len(piece) - 1 <= Len(s) /\ SubSeq(s, i, i + Len(piece) - 1) = piece

\* The first position from i on where s has a "/", or Len(s) + 1.
RECURSIVE NextSlash(_, _)
NextSlash(s, i) == IF i > Len(s) \/ Char(s, i) = "/" THEN i ELSE NextSlash(s, i + 1)

\* The pattern's hosts before the rename of the site: twitter.com alone.
HostsBeforeRename == {"twitter.com/"}

\* (?:twitter\.com|x\.com)/ of url_pattern
Hosts == {"twitter.com/", "x.com/"}

\* url_pattern matched at position i of s: a host, one path segment of at
\* least one character and no "/", then "/status/" and at least one digit.
\* The value is the position of the first digit, or 0 for no match.
MatchAt(s, i) ==
    IF \E h \in Hosts : HasAt(s, i, h)
    THEN LET h == CHOOSE g \in Hosts : HasAt(s, i, g)
             seg == i + Len(h)
             slash == NextSlash(s, seg)
             d == slash + Len("/status/")
         IN IF slash > seg /\ HasAt(s, slash, "/status/") /\ DigitRun(s, d) # ""
            THEN d ELSE 0
    ELSE 0

\* re.search(url_pattern, s): group 1 of the leftmost match, or PyNone.
url_search(s) ==
    LET starts == {i \in 1..Len(s) : MatchAt(s, i) # 0}
    IN IF starts = {} THEN PyNone
       ELSE LET first == CHOOSE i \in starts : \A j \in starts : i <= j
            IN DigitRun(s, MatchAt(s, first))

\* The length test of the fallback being `> 15`.
MoreThanMinDigits(d) == d # "" /\ Len(d) > 15

\* `digits_only and len(digits_only) >= 15`
EnoughDigits(d) == d # "" /\ Len(d) >= 15

\* int(s) printed again, for s a string of digits: the leading zeros go.
RECURSIVE StripZeros(_)
StripZeros(s) == IF Len(s) > 1 /\ Char(s, 1) = "0" THEN StripZeros(SubSeq(s, 2, Len(s)))
                 ELSE s

\* The resolver returning str(int(tweet_input)) for a string of digits.
parse_tweet_id_as_int(input) ==
    IF isdigit(input) THEN StripZeros(input)
    ELSE IF url_search(input) # PyNone THEN url_search(input)
    ELSE IF EnoughDigits(digits_only(input)) THEN digits_only(input)
    ELSE input

\* _parse_tweet_id(tweet_input), tweet_input a str.
parse_tweet_id(input) ==
    IF isdigit(input) THEN input
    ELSE IF url_search(input) # PyNone THEN url_search(input)
    ELSE IF EnoughDigits(digits_only(input)) THEN digits_only(input)
    ELSE input

(***************************************************************************)
(* The tool catalogue and the static texts.                                *)
(***************************************************************************)
\* The disabled set with the direct-message history left readable.
disabled_without_dm_history == {"tweet", "like_tweet", "retweet", "send_dm",
                                "add_reaction_to_message", "delete_dm"}

disabled == {"tweet", "like_tweet", "retweet", "send_dm",
             "add_reaction_to_message", "delete_dm", "get_dm_history"}

get_tools == {"get_user_info", "get_tweet_by_id", "get_timeline",
              "get_latest_timeline", "search_tweets", "get_tweet_replies",
              "get_trends"}

\* The names a caller may send: the catalogue, the disabled names, the
\* legacy name and a name the server does not know.
ToolNames == get_tools
             \cup {"tweet", "like_tweet", "retweet", "send_dm",
                   "add_reaction_to_message", "delete_dm", "get_dm_history"}
             \cup {"authenticate", "get_user_tweets"}

\* The client's write and direct-message operations.
WriteOps == {"create_tweet", "favorite_tweet", "retweet", "send_dm",
             "add_reaction_to_message", "delete_dm", "get_dm_history"}

TextContent(text) == [type |-> "text", text |-> text]

DeprecatedText == "Authentication is automatic using .env. The authenticate tool is deprecated."

DisabledText(name) == "Tool '" \o name \o "' is disabled on this server for safety."

MissingCredentialsText == "Error: Missing Twitter credentials. Set TWITTER_CT0 and TWITTER_AUTH_TOKEN in twitter-scraper-mcp/.env."

\* The unknown name answered without the "Error:" prefix.
UnknownToolTextBare(name) == "Unknown tool: " \o name

UnknownToolText(name) == "Error: Unknown tool: " \o name

ErrorText(msg) == "Error: " \o msg

AuthFailedMsg(msg) == "Authentication failed with provided cookies: " \o msg

ResourceAuthRequiredText == "{\n  \"error\": \"Authentication required. Please provide TWITTER_AUTH_TOKEN and TWITTER_CT0 environment variables or use tools with ct0 and auth_token parameters.\"\n}"

\* json.dumps({"error": msg}, indent=2)
JsonError(msg) == "{\n  \"error\": \"" \o msg \o "\"\n}"

\* str(result) in place of json.dumps(result, indent=2).
StrRecords(op) == "records of " \o op

\* json.dumps(result, indent=2) of the reshaped records a client operation
\* returned; the records' fields are the upstream's data, kept abstract.
JsonRecords(op) == "{\n  \"records\": \"" \o op \o "\"\n}"

(***************************************************************************)
(* What a handler does next: invoke a client operation, return a text, or  *)
(* raise.                                                                  *)
(***************************************************************************)
OpPlan(op) == [tag |-> "op", op |-> op, text |-> ""]
ReturnPlan(text) == [tag |-> "return", op |-> "", text |-> text]
RaisePlan(msg) == [tag |-> "raise", op |-> "", text |-> msg]

\* The name of a value's Python type, as an AttributeError spells it.
TypeName(v) == CASE v.t = "str" -> "str" [] v.t = "int" -> "int" [] OTHER -> "NoneType"

NoIsdigit(v) == "'" \o TypeName(v) \o "' object has no attribute 'isdigit'"

\* _get_tweet_by_id up to its client call: _parse_tweet_id raises on a value
\* that is no str, and the except clause then reads tweet_id, never bound.
HandlerGetTweetById(v) ==
    IF v.t # "str"
    THEN RaisePlan("cannot access local variable 'tweet_id' where it is not associated with a value")
    ELSE OpPlan("get_tweet_by_id")

\* The get_tweet_replies branch calling _retweet in place of
\* _get_tweet_replies.
HandlerCallsRetweet(v) == OpPlan("retweet")

\* _get_tweet_replies up to its client call; its except clause returns.
HandlerGetTweetReplies(v) ==
    IF v.t # "str"
    THEN ReturnPlan("{\n  \"error\": \"Failed to get tweet replies: " \o NoIsdigit(v) \o "\"\n}")
    ELSE OpPlan("get_tweet_by_id")

\* execute_tool from the line after `client = await self._ensure_client(...)`
\* to the first client operation, return or exception.
Dispatch(name, args) ==
    CASE name = "get_user_info" ->
           LET u == Subscript(args, "username")
           IN IF u.ok THEN OpPlan("get_user_by_screen_name") ELSE RaisePlan(u.exc)
      [] name = "get_tweet_by_id" ->
           LET i == Subscript(args, "tweet_input")
           IN IF i.ok THEN HandlerGetTweetById(i.v) ELSE RaisePlan(i.exc)
      [] name = "search_tweets" ->
           LET c == Get(args, "count", IntVal(20))
               q == Subscript(args, "query")
           IN IF ~c.ok THEN RaisePlan(c.exc)
              ELSE IF ~q.ok THEN RaisePlan(q.exc)
              ELSE OpPlan("search_tweet")
      [] name = "get_timeline" ->
           LET c == Get(args, "count", IntVal(20))
           IN IF c.ok THEN OpPlan("get_timeline") ELSE RaisePlan(c.exc)
      [] name = "get_latest_timeline" ->
           LET c == Get(args, "count", IntVal(20))
           IN IF c.ok THEN OpPlan("get_latest_timeline") ELSE RaisePlan(c.exc)
      [] name = "get_tweet_replies" ->
           LET c == Get(args, "count", IntVal(20))
               a == Get(args, "tweet_input", NoneVal)
               b == Get(args, "tweet_id", NoneVal)
           IN IF ~c.ok THEN RaisePlan(c.exc)
              ELSE HandlerGetTweetReplies(IF Truthy(a.v) THEN a.v ELSE b.v)
      [] name = "get_trends" ->
           LET c == Get(args, "category", StrVal("trending"))
           IN IF c.ok THEN OpPlan("get_trends") ELSE RaisePlan(c.exc)
      [] OTHER -> ReturnPlan(UnknownToolText(name))

\* The URIs a caller may read: the catalogue's three paths, an unknown path,
\* a foreign scheme and a URI with no path.
NoUri == [scheme |-> "", path |-> ""]
Uris == {[scheme |-> "twitter", path |-> "/timeline"],
         [scheme |-> "twitter", path |-> "/user-tweets"],
         [scheme |-> "twitter", path |-> "/search"],
         [scheme |-> "twitter", path |-> "/other"],
         [scheme |-> "https", path |-> "/timeline"],
         [scheme |-> "twitter", path |-> PyNone]}

\* handle_read_resource from the line after the client is obtained.
ResourceDispatch(uri) ==
    IF uri.scheme # "twitter" THEN RaisePlan("Unsupported URI scheme: " \o uri.scheme)
    ELSE IF uri.path = PyNone THEN RaisePlan("'NoneType' object has no attribute 'lstrip'")
    ELSE LET path == LStripSlash(uri.path)
         IN CASE path = "timeline" -> OpPlan("get_timeline")
              [] path = "user-tweets" -> OpPlan("get_user_by_screen_name")
              [] path = "search" -> OpPlan("search_tweet")
              [] OTHER -> RaisePlan("Unknown resource path: " \o path)

\* What a client operation may do: return records, return None, or raise.
ExcMsgs == {"401 Unauthorized"}
Outcomes == {[kind |-> "ok", msg |-> ""], [kind |-> "none", msg |-> ""]}
            \cup {[kind |-> "raise", msg |-> m] : m \in ExcMsgs}

\* A username-keyed lookup after the pattern of _get_user_tweets: once the
\* user is found, a second operation is invoked with the user's id.
ToolCompletionSecondLookup(name, op, out) ==
    IF op = "get_user_by_screen_name" /\ out.kind = "ok" THEN OpPlan("get_user_tweets")
    ELSE IF out.kind = "ok" THEN ReturnPlan(JsonRecords(op))
    ELSE RaisePlan(out.msg)

\* The handlers without their own try/except: every failure of the client
\* operation leaves the handler.
ToolCompletionUncaught(name, op, out) ==
    CASE out.kind = "ok" -> ReturnPlan(JsonRecords(op))
      [] out.kind = "none" -> RaisePlan("'NoneType' object has no attribute 'id'")
      [] OTHER -> RaisePlan(out.msg)

\* A tool handler from the return of its client operation `op`.
ToolCompletion(name, op, out) ==
    CASE name = "get_tweet_by_id" ->
           CASE out.kind = "ok" -> ReturnPlan(JsonRecords(op))
             [] out.kind = "none" -> ReturnPlan(JsonError("Tweet not found with ID"))
             [] OTHER -> ReturnPlan(JsonError("Failed to retrieve tweet: " \o out.msg))
      [] name = "get_tweet_replies" ->
           CASE out.kind = "ok" -> ReturnPlan(JsonRecords(op))
             [] out.kind = "none" -> ReturnPlan(JsonError("Tweet not found"))
             [] OTHER -> ReturnPlan(JsonError("Failed to get tweet replies: " \o out.msg))
      [] name = "get_user_info" ->
           CASE out.kind = "ok" -> ReturnPlan(JsonRecords(op))
             [] out.kind = "none" -> RaisePlan("'NoneType' object has no attribute 'id'")
             [] OTHER -> RaisePlan(out.msg)
      [] OTHER ->
           CASE out.kind = "ok" -> ReturnPlan(JsonRecords(op))
             [] out.kind = "none" -> RaisePlan("'NoneType' object is not iterable")
             [] OTHER -> RaisePlan(out.msg)

\* handle_read_resource from the return of its client operation `op`.
ResourceCompletion(op, out) ==
    CASE out.kind = "raise" -> RaisePlan(out.msg)
      [] out.kind = "none" ->
           IF op = "get_user_by_screen_name"
           THEN RaisePlan("'NoneType' object has no attribute 'id'")
           ELSE RaisePlan("'NoneType' object is not iterable")
      [] OTHER ->
           IF op = "get_user_by_screen_name" THEN OpPlan("get_user_tweets")
           ELSE ReturnPlan(JsonRecords(op))

(***************************************************************************)
(* What a call hands back to the protocol runtime.                         *)
(***************************************************************************)
NoResult == [how |-> "none", blocks |-> <<>>, text |-> ""]
ToolReturn(text) == [how |-> "return", blocks |-> <<TextContent(text)>>, text |-> ""]
ResourceReturn(text) == [how |-> "return", blocks |-> <<>>, text |-> text]
Raised(msg) == [how |-> "raise", blocks |-> <<>>, text |-> msg]

\* execute_tool without its except clause: the exception leaves the call.
ExceptClauseAbsent(msg) == Raised(msg)

\* execute_tool's `except Exception as e` clause.
ExceptClause(msg) == ToolReturn(ErrorText(msg))

\* The result of a call whose handler returned or raised.
Finish(kind, plan) ==
    IF kind = "tool"
    THEN IF plan.tag = "raise" THEN ExceptClause(plan.text) ELSE ToolReturn(plan.text)
    ELSE IF plan.tag = "raise" THEN Raised(plan.text) ELSE ResourceReturn(plan.text)

(***************************************************************************)
(* The state.                                                              *)
(***************************************************************************)
VARIABLES
    environ,                \* os.environ: TWITTER_CT0 and TWITTER_AUTH_TOKEN
    dotenv,                 \* the .env file's values (PyNone: no such line)
    client,                 \* self.client: a Client, or NoClient
    last_credentials,       \* self._last_credentials: a pair, or NoCredentials
    authenticated_clients,  \* self.authenticated_clients, the legacy cache
    lock_holder,            \* self._client_lock: the task holding it, or 0
    lock_waiters,           \* self._client_lock: the tasks queued on it
    constructed,            \* the number of Client objects constructed
    probes,                 \* the number of client.user_id() calls made
    invoked_writes,         \* the write/DM operations invoked on any client
    response,               \* the result being handed to the protocol runtime
    task,                   \* per task: the call it runs and where it stands
    tweet_input,            \* _parse_tweet_id: the input it is applied to
    tweet_id,               \* _parse_tweet_id: what it returned
    call,                   \* one execute_tool call looked at on its own
    client_call,            \* that call's client operation and its arguments
    returned,               \* that call's returned text
    upstream,               \* a patched routine's call and the upstream's response
    produced,               \* what the patched routine returned or raised
    handled                 \* the text of the tool call made with that client

\* The server's state, and the state of the resolver and of the single call
\* that are looked at on their own.
server_vars == <<environ, dotenv, client, last_credentials, authenticated_clients,
                 lock_holder, lock_waiters, constructed, probes, invoked_writes,
                 response, task>>
resolver_vars == <<tweet_input, tweet_id>>
call_vars == <<call, client_call, returned>>
patch_vars == <<upstream, produced, handled>>

vars == <<environ, dotenv, client, last_credentials, authenticated_clients,
          lock_holder, lock_waiters, constructed, probes, invoked_writes,
          response, task, tweet_input, tweet_id, call, client_call, returned,
          upstream, produced, handled>>

\* A Client object: its identity and the cookies set on it.
Client(id, cookies) == [id |-> id, cookies |-> cookies]
NoCredentials == <<>>
NoClient == Client(0, NoCredentials)

\* A task with no call in progress.
Idle == [pc |-> "idle", kind |-> "", name |-> "", args |-> ArgsNone, uri |-> NoUri,
         creds |-> NoCredentials, newclient |-> NoClient, client |-> NoClient,
         op |-> ""]

\* A result on its way back: the task, its call, its locals at the return.
Response(t, l, result) == [task |-> t, kind |-> l.kind, name |-> l.name,
                           args |-> l.args, uri |-> l.uri, creds |-> l.creds,
                           client |-> l.client, result |-> result]
NoResponse == Response(0, Idle, NoResult)

\* No call is looked at on its own, and it has made no client call.
NoCall == [pc |-> "none", name |-> "", arguments |-> ArgsNone, outcome |-> ""]
NoClientCall == [op |-> "", kwargs |-> <<>>]

\* The values the environment's two variables take: unset (os.getenv gives
\* None), empty, and secrets.
Ct0Values == {PyNone, "", "c1", "c2"}
TokenValues == {"", "t1"}

\* The .env files: none, and one that holds both secrets.
DotenvFiles == {[TWITTER_CT0 |-> PyNone, TWITTER_AUTH_TOKEN |-> PyNone],
                [TWITTER_CT0 |-> "c1", TWITTER_AUTH_TOKEN |-> "t1"]}

\* The calls a task draws from.  The first task sends every name with every
\* argument mapping and reads every URI; the others contend with it for the
\* client through timeline calls.
NamesOf(t) == IF t = 1 THEN ToolNames ELSE {"get_timeline"}
ArgumentsOf(t) == IF t = 1 THEN Arguments ELSE {ArgsEmpty}
UrisOf(t) == IF t = 1 THEN Uris ELSE {[scheme |-> "twitter", path |-> "/timeline"]}

\* load_dotenv(override=False): a name the file gives is set unless the
\* environment has it already.
LoadDotenv(e, file) ==
    [TWITTER_CT0 |-> IF e.TWITTER_CT0 = PyNone THEN file.TWITTER_CT0 ELSE e.TWITTER_CT0,
     TWITTER_AUTH_TOKEN |-> IF e.TWITTER_AUTH_TOKEN = PyNone THEN file.TWITTER_AUTH_TOKEN
                            ELSE e.TWITTER_AUTH_TOKEN]

\* The state after the module is imported (load_dotenv at line 34) and the
\* server is constructed.
ServerInit ==
    /\ dotenv \in DotenvFiles
    /\ environ = LoadDotenv([TWITTER_CT0 |-> PyNone, TWITTER_AUTH_TOKEN |-> PyNone], dotenv)
    /\ client = NoClient
    /\ last_credentials = NoCredentials
    /\ authenticated_clients = {}
    /\ lock_holder = 0
    /\ lock_waiters = <<>>
    /\ constructed = 0
    /\ probes = 0
    /\ invoked_writes = {}
    /\ response = NoResponse
    /\ task = [t \in Tasks |-> Idle]

\* The resolver has not been applied, and no call is looked at on its own.
ResolverAtRest == tweet_input = PyNone /\ tweet_id = PyNone
CallAtRest == call = NoCall /\ client_call = NoClientCall /\ returned = PyNone
NotRun == [done |-> FALSE, raised |-> FALSE, none |-> FALSE, type |-> "", msg |-> "",
           value |-> PyNone]
NotHandled == [name |-> "", text |-> ""]
PatchAtRest == upstream = PyNone /\ produced = NotRun /\ handled = NotHandled

Init == ServerInit /\ ResolverAtRest /\ CallAtRest /\ PatchAtRest

(***************************************************************************)
(* The pieces of execute_tool and _ensure_client the actions are made of.  *)
(***************************************************************************)
\* The legacy name never recognised.
IsAuthenticateNever(name) == FALSE

\* `name == "authenticate"`
IsAuthenticate(name) == name = "authenticate"

\* The credential check left out: the call goes on to _ensure_client.
MissingCredentialsUnchecked(ct0, auth_token) == FALSE

\* `not ct0 or not auth_token`
MissingCredentials(ct0, auth_token) == Falsy(ct0) \/ Falsy(auth_token)

\* The cached client reused whatever pair the caller carries.
CacheHitAnyPair(creds) == client # NoClient

\* The cache check comparing the token alone.
CacheHitOnToken(creds) == client # NoClient /\ last_credentials[2] = creds[2]

\* `self.client is not None and self._last_credentials == creds`
CacheHit(creds) == client # NoClient /\ last_credentials = creds

\* _ensure_client without its lock.
LockIgnored == TRUE

\* asyncio.Lock.acquire takes the lock at once when it is free and nobody
\* queues for it.
LockFree == lock_holder = 0 /\ lock_waiters = <<>>

\* The lock left with its holder when the probe raises.
HeldOnRaise == lock_holder

\* `raise ValueError(...)` leaves the `async with` block: the lock is released.
ReleasedOnRaise == 0

\* The lock kept by whoever holds it when _ensure_client returns.
NotReleased == lock_holder

\* The lock's holder once `async with self._client_lock` is left.
Released == 0

\* The first client kept once there is one; only the pair is replaced.
CacheKeepsFirstClient(t) ==
    [client |-> IF client = NoClient THEN task[t].newclient ELSE client,
     last_credentials |-> task[t].creds]

\* The new client cached and the stored pair left as it was.
CacheWithoutPair(t) == [client |-> task[t].newclient, last_credentials |-> last_credentials]

\* The cache once the probe of task t's new client has returned: lines 430
\* and 431 store the client and the pair it was built with.
CacheAfterProbe(t) == [client |-> task[t].newclient, last_credentials |-> task[t].creds]

\* The client cached although its probe raised.
CacheKeepsBrokenClient(t) ==
    [client |-> task[t].newclient, last_credentials |-> task[t].creds]

\* The cache once the probe of task t's new client has raised: line 429
\* raises before the cache is written.
CacheAfterFailedProbe(t) == [client |-> client, last_credentials |-> last_credentials]

\* The handler's part of a call, once the client is in hand.
AfterEnsure(l) == IF l.kind = "tool" THEN Dispatch(l.name, l.args)
                  ELSE ResourceDispatch(l.uri)

\* The call of task t, with locals l, goes on as `plan` says: it invokes a
\* client operation and suspends, or it ends and its result goes back.
Proceed(t, l, plan) ==
    IF plan.tag = "op"
    THEN /\ task' = [task EXCEPT ![t] = [l EXCEPT !.pc = "op", !.op = plan.op,
                                                  !.args = ArgsNone, !.uri = NoUri]]
         /\ invoked_writes' = invoked_writes \cup ({plan.op} \cap WriteOps)
         /\ UNCHANGED response
    ELSE /\ task' = [task EXCEPT ![t] = Idle]
         /\ response' = Response(t, l, Finish(l.kind, plan))
         /\ UNCHANGED invoked_writes

\* The body of `async with self._client_lock` (lines 419-432) up to the
\* probe: the cached client is returned, or a client is built and probed.
Critical(t, l) ==
    IF CacheHit(l.creds)
    THEN /\ lock_holder' = Released
         /\ UNCHANGED <<client, last_credentials, constructed, probes>>
         /\ Proceed(t, [l EXCEPT !.client = client], AfterEnsure(l))
    ELSE /\ lock_holder' = t
         /\ constructed' = constructed + 1
         /\ probes' = probes + 1
         /\ task' = [task EXCEPT ![t] =
                        [l EXCEPT !.pc = "probing",
                                  !.newclient = Client(constructed + 1, l.creds)]]
         /\ UNCHANGED <<client, last_credentials, invoked_writes, response>>

\* _ensure_client(ct0, auth_token) from its call to its first suspension.
EnsureClient(t, l) ==
    IF LockFree
    THEN Critical(t, l) /\ UNCHANGED lock_waiters
    ELSE /\ lock_waiters' = Append(lock_waiters, t)
         /\ task' = [task EXCEPT ![t] = [l EXCEPT !.pc = "waitlock"]]
         /\ UNCHANGED <<lock_holder, client, last_credentials, constructed, probes,
                        invoked_writes, response>>

\* A call that reaches _ensure_client may construct a client: it starts
\* while the clients constructed, and those the queued calls may yet
\* construct, leave room for one more.
RoomForClient ==
    constructed + Cardinality({u \in Tasks : task[u].pc = "waitlock"}) < MaxClients

\* A call that ends before _ensure_client is reached.
EndEarly(t, l, result) ==
    /\ response' = Response(t, l, result)
    /\ UNCHANGED <<lock_holder, lock_waiters, client, last_credentials, constructed,
                   probes, invoked_writes, task>>

(***************************************************************************)
(* The actions.  A result is handed to the runtime in the scheduler step   *)
(* that produced it: nothing else runs while a response is on its way.     *)
(***************************************************************************)
\* The environment changes under the server: a variable is set or deleted.
SetEnv(name, value) ==
    /\ response = NoResponse
    /\ environ[name] # value
    /\ environ' = [environ EXCEPT ![name] = value]
    /\ UNCHANGED <<dotenv, client, last_credentials, authenticated_clients,
                   lock_holder, lock_waiters, constructed, probes, invoked_writes,
                   response, task>>
    /\ UNCHANGED <<resolver_vars, call_vars, patch_vars>>

\* execute_tool(name, arguments), from its call to its first suspension.
ExecuteTool(t, name, arguments) ==
    /\ response = NoResponse
    /\ task[t].pc = "idle"
    /\ environ' = LoadDotenv(environ, dotenv)
    /\ LET l == [Idle EXCEPT !.kind = "tool", !.name = name, !.args = arguments]
           ct0 == environ'.TWITTER_CT0
           auth_token == environ'.TWITTER_AUTH_TOKEN
       IN IF IsAuthenticate(name)
          THEN EndEarly(t, l, ToolReturn(DeprecatedText))
          ELSE IF name \in disabled
          THEN EndEarly(t, l, ToolReturn(DisabledText(name)))
          ELSE IF MissingCredentials(ct0, auth_token)
          THEN EndEarly(t, [l EXCEPT !.creds = <<ct0, auth_token>>],
                        ToolReturn(MissingCredentialsText))
          ELSE /\ RoomForClient
               /\ EnsureClient(t, [l EXCEPT !.creds = <<ct0, auth_token>>])
    /\ UNCHANGED <<dotenv, authenticated_clients>>
    /\ UNCHANGED <<resolver_vars, call_vars, patch_vars>>

\* handle_read_resource(uri), from its call to its first suspension.
ReadResource(t, uri) ==
    /\ response = NoResponse
    /\ task[t].pc = "idle"
    /\ LET l == [Idle EXCEPT !.kind = "resource", !.uri = uri]
           auth_token == environ.TWITTER_AUTH_TOKEN
           ct0 == environ.TWITTER_CT0
       IN IF Falsy(auth_token) \/ Falsy(ct0)
          THEN EndEarly(t, [l EXCEPT !.creds = <<ct0, auth_token>>],
                        ResourceReturn(ResourceAuthRequiredText))
          ELSE /\ RoomForClient
               /\ EnsureClient(t, [l EXCEPT !.creds = <<ct0, auth_token>>])
    /\ UNCHANGED <<environ, dotenv, authenticated_clients>>
    /\ UNCHANGED <<resolver_vars, call_vars, patch_vars>>

\* The lock is free and task t heads its queue: t takes the lock and runs
\* the body of `async with`.
AcquireLock(t) ==
    /\ response = NoResponse
    /\ task[t].pc = "waitlock"
    /\ lock_holder = 0
    /\ lock_waiters # <<>>
    /\ Head(lock_waiters) = t
    /\ lock_waiters' = Tail(lock_waiters)
    /\ Critical(t, task[t])
    /\ UNCHANGED <<environ, dotenv, authenticated_clients>>
    /\ UNCHANGED <<resolver_vars, call_vars, patch_vars>>

\* `await client.user_id()` returns: the client is cached and the call goes
\* on to its handler.
ProbeSucceeds(t) ==
    /\ response = NoResponse
    /\ task[t].pc = "probing"
    /\ client' = CacheAfterProbe(t).client
    /\ last_credentials' = CacheAfterProbe(t).last_credentials
    /\ lock_holder' = Released
    /\ Proceed(t, [task[t] EXCEPT !.client = task[t].newclient, !.newclient = NoClient],
               AfterEnsure(task[t]))
    /\ UNCHANGED <<environ, dotenv, authenticated_clients, lock_waiters, constructed,
                   probes>>
    /\ UNCHANGED <<resolver_vars, call_vars, patch_vars>>

\* `await client.user_id()` raises: _ensure_client raises ValueError.
ProbeFails(t, msg) ==
    /\ response = NoResponse
    /\ task[t].pc = "probing"
    /\ client' = CacheAfterFailedProbe(t).client
    /\ last_credentials' = CacheAfterFailedProbe(t).last_credentials
    /\ lock_holder' = ReleasedOnRaise
    /\ Proceed(t, [task[t] EXCEPT !.newclient = NoClient], RaisePlan(AuthFailedMsg(msg)))
    /\ UNCHANGED <<environ, dotenv, authenticated_clients, lock_waiters, constructed,
                   probes>>
    /\ UNCHANGED <<resolver_vars, call_vars, patch_vars>>

\* The client operation a handler awaits returns or raises.
OperationReturns(t, out) ==
    /\ response = NoResponse
    /\ task[t].pc = "op"
    /\ Proceed(t, task[t],
               IF task[t].kind = "tool"
               THEN ToolCompletion(task[t].name, task[t].op, out)
               ELSE ResourceCompletion(task[t].op, out))
    /\ UNCHANGED <<environ, dotenv, client, last_credentials, authenticated_clients,
                   lock_holder, lock_waiters, constructed, probes>>
    /\ UNCHANGED <<resolver_vars, call_vars, patch_vars>>

\* The protocol runtime has the result.
Deliver ==
    /\ response # NoResponse
    /\ response' = NoResponse
    /\ UNCHANGED <<environ, dotenv, client, last_credentials, authenticated_clients,
                   lock_holder, lock_waiters, constructed, probes, invoked_writes,
                   task>>
    /\ UNCHANGED <<resolver_vars, call_vars, patch_vars>>

Next ==
    \/ \E v \in Ct0Values : SetEnv("TWITTER_CT0", v)
    \/ \E v \in TokenValues : SetEnv("TWITTER_AUTH_TOKEN", v)
    \/ \E t \in Tasks : \E name \in NamesOf(t), arguments \in ArgumentsOf(t) :
          ExecuteTool(t, name, arguments)
    \/ \E t \in Tasks : \E uri \in UrisOf(t) : ReadResource(t, uri)
    \/ \E t \in Tasks : AcquireLock(t)
    \/ \E t \in Tasks : ProbeSucceeds(t)
    \/ \E t \in Tasks, msg \in ExcMsgs : ProbeFails(t, msg)
    \/ \E t \in Tasks, out \in Outcomes : OperationReturns(t, out)
    \/ Deliver

Spec == Init /\ [][Next]_vars

(***************************************************************************)
(* The resolver on its own: _parse_tweet_id applied to one input.          *)
(***************************************************************************)
\* What may stand before "/status/": the forms the docstring names, the
\* mobile host, the /i/web/ form, other sites, no user segment, nothing.
UrlPrefixes == {"https://x.com/user", "https://twitter.com/user", "x.com/user",
                "https://mobile.twitter.com/danifesto", "https://x.com/i/web",
                "https://example.com/user", "https://web3.example/user",
                "https://x.com", ""}

\* Identifiers: short ones, one digit below and at the fallback's length,
\* and one of real length.
IdDigits == {"42", "12345678901234", "123456789012345", "2006814700802363810"}

\* What may follow the identifier.
Trailers == {"", "?s=1", "?s=46&t=uFZE-MuhgWdh1YErEZzLtQ", "/photo/1"}

StatusUrls == {p \o "/status/" \o d \o q : p \in UrlPrefixes, d \in IdDigits, q \in Trailers}

\* Strings of digits alone.
DigitInputs == IdDigits \cup {"0", "007"}

\* Inputs of no recognizable form.
OtherInputs == {"", "abc", "12-34", "tweet 42", "id 2006814700802363810",
                "2006-8147-0080-2363-810", "1234-5678-9012-345", "1234-5678-9012-34",
                "https://x.com/user", "x.com/user/status/"}

TweetInputs == StatusUrls \cup DigitInputs \cup OtherInputs

ResolverInit ==
    /\ ServerInit /\ CallAtRest /\ PatchAtRest
    /\ tweet_input \in TweetInputs
    /\ tweet_id = PyNone

\* tweet_id = self._parse_tweet_id(tweet_input)
ParseTweetId ==
    /\ tweet_id = PyNone
    /\ tweet_id' = parse_tweet_id(tweet_input)
    /\ UNCHANGED <<server_vars, tweet_input, call_vars, patch_vars>>

ResolverNext == ParseTweetId

ResolverSpec == ResolverInit /\ [][ResolverNext]_vars

(***************************************************************************)
(* The server under the scheduling of the event loop: a task that can run  *)
(* is run, a result on its way is delivered, and a probe that was sent     *)
(* returns or raises.  Whether a handler's client operation returns is     *)
(* left open.  The calls are timeline calls and calls of a disabled tool,  *)
(* made while TWITTER_CT0 changes between two values and the empty string. *)
(***************************************************************************)
LiveNames == {"get_timeline", "retweet"}
LiveCt0Values == {"", "c1", "c2"}

LiveNext ==
    \/ \E v \in LiveCt0Values : SetEnv("TWITTER_CT0", v)
    \/ \E t \in Tasks : \E name \in LiveNames : ExecuteTool(t, name, ArgsEmpty)
    \/ \E t \in Tasks : AcquireLock(t)
    \/ \E t \in Tasks : ProbeSucceeds(t)
    \/ \E t \in Tasks, msg \in ExcMsgs : ProbeFails(t, msg)
    \/ \E t \in Tasks, out \in Outcomes : OperationReturns(t, out)
    \/ Deliver

\* The probe of task t returns or raises.
ProbeEnds(t) == ProbeSucceeds(t) \/ \E msg \in ExcMsgs : ProbeFails(t, msg)

Fairness ==
    /\ WF_vars(Deliver)
    /\ \A t \in Tasks : SF_vars(AcquireLock(t))
    /\ \A t \in Tasks : SF_vars(ProbeEnds(t))

LiveSpec == Init /\ [][LiveNext]_vars /\ Fairness

(***************************************************************************)
(* One execute_tool call on its own, with the arguments it hands to the    *)
(* client.  The credentials are set and their client is cached, so that    *)
(* _ensure_client returns it without suspending.                           *)
(***************************************************************************)
\* A client operation with its arguments, a returned text, or an exception.
Invoke(op, kwargs) == [tag |-> "op", op |-> op, kwargs |-> kwargs, text |-> ""]
Returns(text) == [tag |-> "return", op |-> "", kwargs |-> <<>>, text |-> text]
Raises(msg) == [tag |-> "raise", op |-> "", kwargs |-> <<>>, text |-> msg]

\* The product handed on as it came.
product_unchecked(v) == v

\* `if product not in ("Top", "Latest"): product = "Latest"`
product_checked(v) == IF v \in {StrVal("Top"), StrVal("Latest")} THEN v ELSE StrVal("Latest")

\* _get_tweet_by_id(client, tweet_input) up to its client call.
GetTweetByIdCall(v) ==
    IF v.t # "str"
    THEN Raises("cannot access local variable 'tweet_id' where it is not associated with a value")
    ELSE Invoke("get_tweet_by_id", [tweet_id |-> StrVal(parse_tweet_id(v.s))])

\* The resolver left out: the input goes to the client as it came.
GetTweetRepliesUnresolved(v) == Invoke("get_tweet_by_id", [tweet_id |-> v])

\* _get_tweet_replies(client, tweet_input, count) up to its client call.
GetTweetRepliesCall(v) ==
    IF v.t # "str"
    THEN Returns("{\n  \"error\": \"Failed to get tweet replies: " \o NoIsdigit(v) \o "\"\n}")
    ELSE Invoke("get_tweet_by_id", [tweet_id |-> StrVal(parse_tweet_id(v.s))])

\* execute_tool from the line after `client = await self._ensure_client(...)`
\* to the first client operation, with the arguments of that operation.
DispatchCall(name, args) ==
    CASE name = "get_user_info" ->
           LET u == Subscript(args, "username")
           IN IF u.ok THEN Invoke("get_user_by_screen_name", [screen_name |-> u.v])
              ELSE Raises(u.exc)
      [] name = "get_tweet_by_id" ->
           LET i == Subscript(args, "tweet_input")
           IN IF i.ok THEN GetTweetByIdCall(i.v) ELSE Raises(i.exc)
      [] name = "search_tweets" ->
           LET c == Get(args, "count", IntVal(20))
               pr == Get(args, "product", StrVal("Latest"))
               q == Subscript(args, "query")
           IN IF ~c.ok THEN Raises(c.exc)
              ELSE IF ~q.ok THEN Raises(q.exc)
              ELSE Invoke("search_tweet",
                          [query |-> q.v, product |-> product_checked(pr.v), count |-> c.v])
      [] name = "get_timeline" ->
           LET c == Get(args, "count", IntVal(20))
           IN IF c.ok THEN Invoke("get_timeline", [count |-> c.v]) ELSE Raises(c.exc)
      [] name = "get_latest_timeline" ->
           LET c == Get(args, "count", IntVal(20))
           IN IF c.ok THEN Invoke("get_latest_timeline", [count |-> c.v]) ELSE Raises(c.exc)
      [] name = "get_tweet_replies" ->
           LET c == Get(args, "count", IntVal(20))
               a == Get(args, "tweet_input", NoneVal)
               b == Get(args, "tweet_id", NoneVal)
           IN IF ~c.ok THEN Raises(c.exc)
              ELSE GetTweetRepliesCall(IF Truthy(a.v) THEN a.v ELSE b.v)
      [] name = "get_trends" ->
           LET cat == Get(args, "category", StrVal("trending"))
               c == Get(args, "count", IntVal(20))
           IN IF cat.ok THEN Invoke("get_trends", [category |-> cat.v, count |-> c.v])
              ELSE Raises(cat.exc)
      [] OTHER -> Returns(UnknownToolText(name))

\* What the client does with an operation: it returns what was asked for
\* (get_tweet_by_id: the tweet with the id it was called with), or raises.
\* The patched get_tweet_by_id never returns None.
ClientReplies == {[kind |-> "ok", msg |-> ""]} \cup {[kind |-> "raise", msg |-> m] : m \in ExcMsgs}

\* json.dumps of the record _get_tweet_by_id builds from the tweet; the
\* fields after the id are the upstream's data.
JsonTweet(id) == "{\n  \"id\": \"" \o id \o "\",\n  \"text\": \"...\"\n}"

\* json.dumps of the record _get_tweet_replies builds.
JsonReplies(id) ==
    "{\n  \"original_tweet\": {\n    \"id\": \"" \o id \o "\"\n  },\n  \"replies\": []\n}"

\* The text execute_tool returns once the client operation `c` has replied.
CompleteCall(name, c, out) ==
    CASE name = "get_tweet_by_id" ->
           IF out.kind = "ok" THEN JsonTweet(c.kwargs.tweet_id.s)
           ELSE "{\n  \"error\": \"Failed to retrieve tweet: " \o out.msg
                \o "\",\n  \"tweet_id\": \"" \o c.kwargs.tweet_id.s
                \o "\",\n  \"error_type\": \"Exception\"\n}"
      [] name = "get_tweet_replies" ->
           IF out.kind = "ok" THEN JsonReplies(c.kwargs.tweet_id.s)
           ELSE JsonError("Failed to get tweet replies: " \o out.msg)
      [] OTHER ->
           IF out.kind = "ok" THEN JsonRecords(c.op) ELSE ErrorText(out.msg)

\* Argument mappings are put together from their keys.
Merge(f, g) == [k \in DOMAIN f \cup DOMAIN g |-> IF k \in DOMAIN g THEN g[k] ELSE f[k]]
Mapping(d) == [ismap |-> TRUE, d |-> d]
Among(key, values) == {<<>>} \cup {[k \in {key} |-> v] : v \in values}

\* Tweet references: identifiers as digits and inside status URLs.
RefDigits == {"42", "2006814700802363810"}
RefsOf(d) == {d, "https://x.com/user/status/" \o d,
              "https://twitter.com/user/status/" \o d \o "?s=1",
              "https://x.com/danifesto/status/" \o d \o "?s=46&t=uFZE-MuhgWdh1YErEZzLtQ"}
TweetRefs == UNION {RefsOf(d) : d \in RefDigits}

\* Counts inside, at and beyond the bounds the schemas declare, and counts
\* that are no integers.
CountValues == {IntVal(-5), IntVal(0), IntVal(1), IntVal(20), IntVal(50), IntVal(51),
                IntVal(100), IntVal(101), IntVal(500), StrVal("ten"), NoneVal}
ProductValues == {StrVal("Top"), StrVal("Latest"), StrVal("top"), StrVal("Popular"),
                  StrVal(""), NoneVal, IntVal(7)}
CategoryValues == {StrVal("trending"), StrVal("for-you"), StrVal("news"), StrVal("sports"),
                   StrVal("entertainment"), StrVal("bogus"), StrVal(""), NoneVal}

\* The calls looked at: every enabled tool with the argument mappings its
\* branch reads.
Calls ==
    {<<"get_user_info", Mapping(d)>> : d \in Among("username", {StrVal("jack")})}
    \cup {<<"get_tweet_by_id", Mapping(d)>> :
             d \in Among("tweet_input", {StrVal(r) : r \in TweetRefs} \cup {IntVal(42)})}
    \cup {<<"get_tweet_replies", Mapping(Merge(d, c))>> :
             d \in Among("tweet_input", {StrVal(r) : r \in TweetRefs})
                   \cup Among("tweet_id", {StrVal(r) : r \in TweetRefs})
                   \cup {[tweet_input |-> StrVal(""), tweet_id |-> StrVal("42")]},
             c \in Among("count", {IntVal(5)})}
    \cup {<<"search_tweets", Mapping(Merge(Merge(q, pr), c))>> :
             q \in Among("query", {StrVal("python")}),
             pr \in Among("product", ProductValues),
             c \in Among("count", {IntVal(0), IntVal(100), IntVal(101)})}
    \cup {<<n, Mapping(c)>> : n \in {"get_timeline", "get_latest_timeline"},
                              c \in Among("count", CountValues)}
    \cup {<<"get_trends", Mapping(Merge(cat, c))>> :
             cat \in Among("category", CategoryValues),
             c \in Among("count", {IntVal(0), IntVal(1), IntVal(50), IntVal(51)})}

\* The server holds credentials and the client built with them.
ServerWithClient ==
    /\ dotenv \in DotenvFiles
    /\ environ = [TWITTER_CT0 |-> "c1", TWITTER_AUTH_TOKEN |-> "t1"]
    /\ client = Client(1, <<"c1", "t1">>)
    /\ last_credentials = <<"c1", "t1">>
    /\ authenticated_clients = {}
    /\ lock_holder = 0 /\ lock_waiters = <<>>
    /\ constructed = 1 /\ probes = 1
    /\ invoked_writes = {}
    /\ response = NoResponse
    /\ task = [t \in Tasks |-> Idle]

CallInit ==
    /\ ServerWithClient
    /\ ResolverAtRest /\ PatchAtRest
    /\ \E c \in Calls : call = [pc |-> "called", name |-> c[1], arguments |-> c[2],
                                 outcome |-> ""]
    /\ client_call = NoClientCall
    /\ returned = PyNone

\* execute_tool(name, arguments) up to its client operation, or to its end.
ExecuteToolCall ==
    /\ call.pc = "called"
    /\ ~IsAuthenticate(call.name) /\ call.name \notin disabled
    /\ ~MissingCredentials(environ.TWITTER_CT0, environ.TWITTER_AUTH_TOKEN)
    /\ LockFree /\ CacheHit(<<environ.TWITTER_CT0, environ.TWITTER_AUTH_TOKEN>>)
    /\ LET plan == DispatchCall(call.name, call.arguments)
       IN IF plan.tag = "op"
          THEN /\ client_call' = [op |-> plan.op, kwargs |-> plan.kwargs]
               /\ call' = [call EXCEPT !.pc = "awaiting"]
               /\ UNCHANGED returned
          ELSE /\ returned' = IF plan.tag = "raise" THEN ErrorText(plan.text) ELSE plan.text
               /\ call' = [call EXCEPT !.pc = "done"]
               /\ UNCHANGED client_call
    /\ UNCHANGED <<server_vars, resolver_vars, patch_vars>>

\* The client operation replies and execute_tool returns.
ClientReplied(out) ==
    /\ call.pc = "awaiting"
    /\ returned' = CompleteCall(call.name, client_call, out)
    /\ call' = [call EXCEPT !.pc = "done", !.outcome = out.kind]
    /\ UNCHANGED <<server_vars, resolver_vars, client_call, patch_vars>>

CallNext ==
    \/ ExecuteToolCall
    \/ \E out \in ClientReplies : ClientReplied(out)

CallSpec == CallInit /\ [][CallNext]_vars

(***************************************************************************)
(* What a step shows of a call.                                            *)
(***************************************************************************)
\* Task t starts an execute_tool call in this step.
ToolCallStep(t) ==
    /\ task[t].pc = "idle"
    /\ response = NoResponse
    /\ \/ task'[t].pc # "idle" /\ task'[t].kind = "tool"
       \/ response'.task = t /\ response'.kind = "tool"

\* The name that call was made with.
CalledName(t) == IF task'[t].pc # "idle" THEN task'[t].name ELSE response'.name

\* Task t runs the body of `async with self._client_lock` in this step.
EnsureStep(t) ==
    /\ task[t].pc \in {"idle", "waitlock"}
    /\ \/ task'[t].pc \in {"probing", "op"}
       \/ task'[t].pc = "idle" /\ response'.task = t /\ response'.client # NoClient

\* The pair that run of _ensure_client was called with.
EnsurePair(t) == IF task'[t].pc = "idle" THEN response'.creds ELSE task'[t].creds

\* Task t constructs a client in this step.
ConstructStep(t) == task[t].pc # "probing" /\ task'[t].pc = "probing"

\* The probe of task t succeeds, or fails, in this step.
ProbeOkStep(t) ==
    /\ task[t].pc = "probing"
    /\ \/ task'[t].pc = "op"
       \/ task'[t].pc = "idle" /\ response'.task = t /\ response'.client # NoClient

ProbeFailStep(t) ==
    /\ task[t].pc = "probing"
    /\ task'[t].pc = "idle" /\ response'.task = t /\ response'.client = NoClient

\* The handle _ensure_client returns to task t in this step, if it returns one.
Handed(t) ==
    IF task[t].pc = "op" THEN NoClient
    ELSE IF task'[t].pc = "op" THEN task'[t].client
    ELSE IF task'[t].pc = "idle" /\ response' # NoResponse /\ response'.task = t
         THEN response'.client
    ELSE NoClient

\* A result that is exactly one text block with the given text.
OneTextBlock(result, text) ==
    /\ result.how = "return"
    /\ Len(result.blocks) = 1
    /\ result.blocks[1].type = "text"
    /\ result.blocks[1].text = text

\* The cache, the lock and the counters of clients and probes stay as they are.
NoClientActivity ==
    /\ client' = client
    /\ last_credentials' = last_credentials
    /\ authenticated_clients' = authenticated_clients
    /\ lock_holder' = lock_holder
    /\ lock_waiters' = lock_waiters
    /\ constructed' = constructed
    /\ probes' = probes
    /\ invoked_writes' = invoked_writes

(***************************************************************************)
(* The claims.                                                             *)
(***************************************************************************)
DisabledNames == {"tweet", "like_tweet", "retweet", "send_dm",
                  "add_reaction_to_message", "delete_dm", "get_dm_history"}

EnabledNames == {"get_user_info", "get_tweet_by_id", "get_timeline",
                 "get_latest_timeline", "search_tweets", "get_tweet_replies",
                 "get_trends"}

\* C1: a call of a tool in the disabled set, whatever its arguments, returns
\* exactly one text block, "Tool '<name>' is disabled on this server for
\* safety."
C1_DisabledToolText ==
    (response.kind = "tool" /\ response.name \in DisabledNames)
        => OneTextBlock(response.result,
                        "Tool '" \o response.name \o "' is disabled on this server for safety.")

\* A disabled tool has been called with ill-typed arguments and no credentials.
C1_Witness ==
    /\ response.kind = "tool"
    /\ response.name = "delete_dm"
    /\ response.args = ArgsIllTyped
    /\ environ.TWITTER_CT0 = "" /\ environ.TWITTER_AUTH_TOKEN = ""
    /\ response.result.blocks[1].text = "Tool 'delete_dm' is disabled on this server for safety."

\* C2: whatever tools are called and resources read, no write or
\* direct-message operation of the client is ever invoked.
C2_NoWriteOperation == invoked_writes \cap
    {"create_tweet", "favorite_tweet", "retweet", "send_dm",
     "add_reaction_to_message", "delete_dm", "get_dm_history"} = {}

\* A disabled tool is answered while a client exists and a read operation of
\* another call is in flight.
C2_Witness ==
    /\ response.kind = "tool" /\ response.name = "retweet"
    /\ client # NoClient
    /\ \E t \in Tasks : task[t].pc = "op" /\ task[t].op = "get_timeline"

\* C3: execute_tool never raises: every call returns a non-empty list of
\* text blocks.
C3_NeverRaises ==
    response.kind = "tool"
        => /\ response.result.how = "return"
           /\ Len(response.result.blocks) >= 1
           /\ \A i \in 1..Len(response.result.blocks) :
                  response.result.blocks[i].type = "text"

\* A call without its required argument has come back as an error block.
C3_Witness ==
    /\ response.kind = "tool" /\ response.name = "get_user_info"
    /\ response.args = ArgsEmpty
    /\ response.result.how = "return"
    /\ response.result.blocks = <<[type |-> "text", text |-> "Error: 'username'"]>>

\* C4: _ensure_client called with the pair the cached client was built with
\* constructs nothing, probes nothing and returns the cached client; called
\* with any other pair, or with no client cached, it constructs a client
\* with that pair and probes it; and a probe that succeeds leaves the new
\* client and its pair in the cache.
C4_ReuseUnlessPairChanges ==
    [][\A t \in Tasks :
          /\ EnsureStep(t) =>
                IF client # NoClient /\ last_credentials = EnsurePair(t)
                THEN /\ constructed' = constructed
                     /\ probes' = probes
                     /\ Handed(t) = client
                     /\ client' = client
                ELSE /\ constructed' = constructed + 1
                     /\ probes' = probes + 1
                     /\ task'[t].pc = "probing"
                     /\ task'[t].newclient.cookies = EnsurePair(t)
          /\ ProbeOkStep(t) =>
                /\ client' = Handed(t)
                /\ client'.cookies = task[t].creds
                /\ last_credentials' = task[t].creds]_vars

\* Two calls hold the one client ever constructed: the later of them was
\* served from the cache.
C4_Witness ==
    /\ constructed = 1 /\ probes = 1
    /\ response.task = 1 /\ response.kind = "tool" /\ response.client = client
    /\ client # NoClient
    /\ last_credentials = response.creds
    /\ task[2].pc = "op" /\ task[2].client = client

\* C5: when the probe of a new client fails, the call ends with the
\* authentication failure and the cache is what it was before the call:
\* constructing the client, waiting for its probe and the failure of the
\* probe all leave the cached client and pair alone, the client under probe
\* is never the cached one, and the failing pair is not the cached pair
\* afterwards, so the next call with it builds and probes again.
C5_FailedProbeNotCached ==
    [][\A t \in Tasks :
          /\ task[t].pc = "probing" => client # task[t].newclient
          /\ ConstructStep(t) \/ (task[t].pc = "probing" /\ task'[t].pc = "probing") =>
                client' = client /\ last_credentials' = last_credentials
          /\ ProbeFailStep(t) =>
                /\ client' = client
                /\ last_credentials' = last_credentials
                /\ ~(client' # NoClient /\ last_credentials' = task[t].creds)
                /\ \E msg \in ExcMsgs :
                      LET e == "Authentication failed with provided cookies: " \o msg
                      IN IF response'.kind = "tool"
                         THEN OneTextBlock(response'.result, "Error: " \o e)
                         ELSE response'.result.how = "raise" /\ response'.result.text = e]_vars

\* A second client's probe has failed like the first one's: nothing is cached.
C5_Witness ==
    /\ constructed = 2
    /\ client = NoClient /\ last_credentials = NoCredentials
    /\ response.kind = "tool"
    /\ response.result.blocks[1].text =
          "Error: Authentication failed with provided cookies: 401 Unauthorized"

\* C6: clients are built one at a time and never twice for the cached pair:
\* a client is constructed only while no other is under probe and only when
\* the cached client, if any, carries other cookies; whoever _ensure_client
\* returns to holds the client the cache holds at that moment.
C6_NoDuplicateClients ==
    [][/\ Cardinality({t \in Tasks : task[t].pc = "probing"}) <= 1
       /\ \A t \in Tasks :
             /\ ConstructStep(t) =>
                   /\ \A u \in Tasks \ {t} : task[u].pc # "probing"
                   /\ ~(client # NoClient /\ client.cookies = task'[t].creds)
             /\ (EnsureStep(t) \/ ProbeOkStep(t)) /\ Handed(t) # NoClient =>
                   Handed(t) = client']_vars

\* Two concurrent calls with one pair both hold the only client constructed.
C6_Witness ==
    /\ constructed = 1 /\ probes = 1
    /\ \A t \in {1, 2} : /\ task[t].pc = "op"
                         /\ task[t].client = client
                         /\ task[t].creds = last_credentials
    /\ client.id = 1

\* C7: the lock is held only by a task inside _ensure_client, up to the
\* return of its probe; a task whose handler awaits a client operation
\* does not hold it, and whoever waits for the lock waits for a probe or
\* for its own turn, never for a handler.
C7_LockOnlyDuringEnsure ==
    /\ lock_holder # 0 => task[lock_holder].pc = "probing"
    /\ \A t \in Tasks : task[t].pc = "op" => lock_holder # t
    /\ lock_waiters # <<>> =>
          \/ \E u \in Tasks : task[u].pc = "probing" /\ lock_holder = u
          \/ lock_holder = 0 /\ task[Head(lock_waiters)].pc = "waitlock"

\* One call's operation is in flight while another call holds the lock for
\* its probe.
C7_Witness ==
    /\ task[1].pc = "op"
    /\ task[2].pc = "probing"
    /\ lock_holder = 2

\* C8: the cache holds at most one client; it changes only when a probe
\* succeeds, and then to the client just probed, the last one constructed,
\* which replaces the one cached before.
C8_OneCachedClientLastWins ==
    [][/\ Cardinality(authenticated_clients
                      \cup (IF client = NoClient THEN {} ELSE {client})) <= 1
       /\ client' # client =>
             \E t \in Tasks : /\ ProbeOkStep(t)
                              /\ client' = task[t].newclient
                              /\ client'.id = constructed
       /\ \A t \in Tasks : ProbeOkStep(t) =>
             /\ client' = task[t].newclient
             /\ client' # client
             /\ Cardinality(authenticated_clients'
                            \cup (IF client' = NoClient THEN {} ELSE {client'})) = 1]_vars

\* The credentials changed: the second client replaced the first in the
\* cache while a call still works with the first.
C8_Witness ==
    /\ client.id = 2
    /\ \E t \in Tasks : /\ task[t].pc = "op"
                        /\ task[t].client.id = 1
                        /\ task[t].client.cookies # client.cookies

\* The test's assertions on the lower-cased message.
SaysBothAreMissing(text) ==
    LET msg == Lower(text)
    IN /\ Contains(msg, "missing")
       /\ Contains(msg, "twitter_ct0")
       /\ Contains(msg, "twitter_auth_token")

\* The same, worked out once for the server's fixed texts.
FixedTexts == {MissingCredentialsText, DeprecatedText}
FixedTextSaysSo == [text \in FixedTexts |-> SaysBothAreMissing(text)]

NamesMissingVariables(text) ==
    IF text \in FixedTexts THEN FixedTextSaysSo[text] ELSE SaysBothAreMissing(text)

\* C9: with both credential variables empty, a call of an enabled tool
\* returns one text block whose lower-cased text contains "missing",
\* "twitter_ct0" and "twitter_auth_token", and no client is constructed,
\* probed or used on the way.
C9_MissingCredentials ==
    [][\A t \in Tasks :
          (/\ ToolCallStep(t)
           /\ CalledName(t) \in EnabledNames
           /\ environ.TWITTER_CT0 = "" /\ environ.TWITTER_AUTH_TOKEN = "")
          => /\ response'.task = t
             /\ response'.result.how = "return"
             /\ Len(response'.result.blocks) = 1
             /\ response'.result.blocks[1].type = "text"
             /\ NamesMissingVariables(response'.result.blocks[1].text)
             /\ NoClientActivity
             /\ task' = task]_vars

\* search_tweets has been called with both variables empty.
C9_Witness ==
    /\ response.kind = "tool" /\ response.name = "search_tweets"
    /\ response.creds = <<"", "">>
    /\ environ.TWITTER_CT0 = "" /\ environ.TWITTER_AUTH_TOKEN = ""
    /\ constructed = 0
    /\ NamesMissingVariables(response.result.blocks[1].text)
    /\ ~NamesMissingVariables(DeprecatedText)

\* C10: a call of 'authenticate' returns the deprecation notice whatever
\* its arguments; it reads no credentials, constructs and probes no client,
\* invokes no client operation and leaves the cache and the lock alone.
C10_AuthenticateIsStatic ==
    [][\A t \in Tasks :
          (ToolCallStep(t) /\ CalledName(t) = "authenticate")
          => /\ response'.task = t
             /\ OneTextBlock(response'.result,
                   "Authentication is automatic using .env. The authenticate tool is deprecated.")
             /\ response'.creds = NoCredentials
             /\ response'.client = NoClient
             /\ NoClientActivity
             /\ task' = task]_vars

\* 'authenticate' has been called with arguments while valid credentials
\* are set and a client is cached.
C10_Witness ==
    /\ response.kind = "tool" /\ response.name = "authenticate"
    /\ response.args = ArgsFull
    /\ response.creds = NoCredentials
    /\ client # NoClient
    /\ environ.TWITTER_CT0 = "c2" /\ environ.TWITTER_AUTH_TOKEN = "t1"

\* s.startswith(prefix)
StartsWith(s, prefix) == Len(s) >= Len(prefix) /\ SubSeq(s, 1, Len(prefix)) = prefix

\* s.endswith(suffix)
EndsWith(s, suffix) ==
    Len(s) >= Len(suffix) /\ SubSeq(s, Len(s) - Len(suffix) + 1, Len(s)) = suffix

\* The text is what json.dumps(value, indent=2) gives for an object or a
\* list: it opens and closes with the brackets on lines of their own.
PrettyJson(text) ==
    \/ StartsWith(text, "{\n  \"") /\ EndsWith(text, "\n}")
    \/ StartsWith(text, "[\n  ") /\ EndsWith(text, "\n]")
    \/ text \in {"{}", "[]"}

\* The text is a pretty-printed object whose first member is "error".
JsonErrorObject(text) == StartsWith(text, "{\n  \"error\": \"") /\ EndsWith(text, "\"\n}")

\* The names that are neither in the catalogue, nor disabled, nor legacy.
UnknownNames == ToolNames \ (EnabledNames \cup DisabledNames \cup {"authenticate"})

\* The call of this response had both credentials and got a client.
Authenticated(r) == ~Falsy(r.creds[1]) /\ ~Falsy(r.creds[2]) /\ r.client # NoClient

\* C11 as stated: a call with a name that is not in the catalogue, not
\* disabled and not 'authenticate' returns the "Unknown tool" text.
C11_Original ==
    (response.kind = "tool" /\ response.name \in UnknownNames)
    => OneTextBlock(response.result, "Error: Unknown tool: " \o response.name)

\* C11 amended: such a call returns "Error: Unknown tool: <name>" once the
\* credentials are present and _ensure_client has returned a client; with a
\* credential missing it returns the missing-credentials text, and when the
\* probe of a new client fails it returns the authentication failure.
C11_UnknownToolAfterAuthentication ==
    (response.kind = "tool" /\ response.name \in UnknownNames)
    => IF Falsy(response.creds[1]) \/ Falsy(response.creds[2])
       THEN OneTextBlock(response.result,
               "Error: Missing Twitter credentials. Set TWITTER_CT0 and TWITTER_AUTH_TOKEN in twitter-scraper-mcp/.env.")
       ELSE IF response.client = NoClient
       THEN \E msg \in ExcMsgs :
               OneTextBlock(response.result,
                  "Error: Authentication failed with provided cookies: " \o msg)
       ELSE OneTextBlock(response.result, "Error: Unknown tool: " \o response.name)

\* An unknown name has been answered by a call that holds a client.
C11_Witness ==
    /\ response.kind = "tool" /\ response.name = "get_user_tweets"
    /\ Authenticated(response)
    /\ response.result.blocks[1].text = "Error: Unknown tool: get_user_tweets"

\* C12 as stated: every tool call returns exactly one text block whose body
\* is pretty-printed JSON.
C12_Original ==
    response.kind = "tool"
    => /\ response.result.how = "return"
       /\ Len(response.result.blocks) = 1
       /\ response.result.blocks[1].type = "text"
       /\ PrettyJson(response.result.blocks[1].text)

\* C12 amended: every tool call returns exactly one text block.  Its body
\* is pretty-printed JSON, the records or an object with an "error" string,
\* when the handler of an enabled tool returns, which takes a client; in
\* every other case the body is plain text: the deprecation notice, the
\* disabled notice, or a text prefixed "Error: ".
C12_OneBlockJsonOrNotice ==
    response.kind = "tool"
    => /\ response.result.how = "return"
       /\ Len(response.result.blocks) = 1
       /\ response.result.blocks[1].type = "text"
       /\ LET text == response.result.blocks[1].text
          IN \/ /\ PrettyJson(text)
                /\ response.name \in EnabledNames
                /\ Authenticated(response)
             \/ /\ response.name = "authenticate"
                /\ text = "Authentication is automatic using .env. The authenticate tool is deprecated."
             \/ /\ response.name \in DisabledNames
                /\ text = "Tool '" \o response.name \o "' is disabled on this server for safety."
             \/ /\ response.name \notin DisabledNames \cup {"authenticate"}
                /\ StartsWith(text, "Error: ")

\* A listing tool has returned its records as JSON.
C12_Witness ==
    /\ response.kind = "tool" /\ response.name = "get_timeline"
    /\ Authenticated(response)
    /\ PrettyJson(response.result.blocks[1].text)
    /\ ~JsonErrorObject(response.result.blocks[1].text)

\* The call of this response met an exception of the client: the message of
\* the exception is in the text.
ClientRaised(r) == \E msg \in ExcMsgs : Contains(r.result.blocks[1].text, msg)

Resolved == tweet_id # PyNone

\* C14 as stated: for every input of the form <anything>/status/<digits>,
\* with or without trailing query parameters, the resolver returns <digits>.
C14_Original ==
    Resolved =>
       \A p \in UrlPrefixes, d \in IdDigits, q \in {"", "?s=1", "?s=46&t=uFZE-MuhgWdh1YErEZzLtQ"} :
          tweet_input = p \o "/status/" \o d \o q => tweet_id = d

\* C14 amended: for every input that holds twitter.com/ or x.com/, one
\* path segment and /status/<digits>, whatever comes before the host and
\* after the digits, the resolver returns exactly <digits>.
C14_StatusUrlGivesDigits ==
    Resolved =>
       \A lead \in {"", "https://", "https://mobile."}, host \in {"twitter.com", "x.com"},
          segment \in {"user", "danifesto"}, d \in IdDigits, q \in Trailers :
          tweet_input = lead \o host \o "/" \o segment \o "/status/" \o d \o q
          => tweet_id = d

\* An x.com URL with a short identifier and query parameters was resolved.
C14_Witness ==
    /\ tweet_input = "https://x.com/user/status/42?s=46&t=uFZE-MuhgWdh1YErEZzLtQ"
    /\ tweet_id = "42"

\* C15: for an input that is a string of digits, of any length, the
\* resolver returns the input unchanged.
C15_DigitsUnchanged ==
    (Resolved /\ tweet_input \in {"0", "007", "42", "12345678901234", "123456789012345",
                                 "2006814700802363810"})
    => tweet_id = tweet_input

\* A short string of digits with leading zeros was resolved to itself.
C15_Witness == tweet_input = "007" /\ tweet_id = "007"

\* The digits of the prefixes and trailers the inputs are built from.
DigitsOfPrefix == [p \in {"https://x.com/i/web", "https://example.com/user",
                          "https://web3.example/user", "https://x.com", ""} |->
                      IF p = "https://web3.example/user" THEN "3" ELSE ""]
DigitsOfTrailer == [q \in Trailers |->
                      CASE q = "" -> ""
                        [] q = "?s=1" -> "1"
                        [] q = "?s=46&t=uFZE-MuhgWdh1YErEZzLtQ" -> "461"
                        [] q = "/photo/1" -> "1"]

\* The digits of the inputs that are neither digits nor a status URL.
DigitsOfOther == [i \in OtherInputs |->
                    CASE i = "12-34" -> "1234"
                      [] i = "tweet 42" -> "42"
                      [] i = "id 2006814700802363810" -> "2006814700802363810"
                      [] i = "2006-8147-0080-2363-810" -> "2006814700802363810"
                      [] i = "1234-5678-9012-345" -> "123456789012345"
                      [] i = "1234-5678-9012-34" -> "12345678901234"
                      [] OTHER -> ""]

\* What C16 says of an input with the digits ds.
FallbackOf(input, ds) == IF Len(ds) >= 15 THEN ds ELSE input

SuppliedRef ==
    LET d == call.arguments.d
    IN IF "tweet_input" \in DOMAIN d /\ Truthy(d["tweet_input"]) THEN d["tweet_input"]
       ELSE IF "tweet_id" \in DOMAIN d THEN d["tweet_id"]
       ELSE NoneVal
DigitsOfRef(r) == CHOOSE d \in RefDigits : r \in RefsOf(d)
SuppliesRef ==
    /\ call.name \in {"get_tweet_by_id", "get_tweet_replies"}
    /\ SuppliedRef.t = "str" /\ SuppliedRef.s \in TweetRefs
\* What the same tool does when it is given the bare digits.
PlainCall(name, digits) == DispatchCall(name, Mapping([tweet_input |-> StrVal(digits)]))
Listings == {"get_timeline", "get_latest_timeline", "search_tweets", "get_trends"}
Supplied(key) == key \in DOMAIN call.arguments.d
ClientCalled == call.pc \in {"awaiting", "done"} /\ client_call # NoClientCall

\* C17: get_tweet_by_id and get_tweet_replies hand the client the
\* resolver's output for the reference they were given, so a call with a
\* status URL carrying <digits>, with or without a query string, makes the
\* client call of the call with '<digits>' and returns the result that call
\* returns for the same reply of the client.
C17_UrlAndPlainIdAlike ==
    (SuppliesRef /\ call.pc # "called") =>
        LET digits == DigitsOfRef(SuppliedRef.s)
            plain == PlainCall(call.name, digits)
        IN /\ client_call.op = "get_tweet_by_id"
           /\ client_call.kwargs = [tweet_id |-> StrVal(parse_tweet_id(SuppliedRef.s))]
           /\ client_call = [op |-> plain.op, kwargs |-> plain.kwargs]
           /\ client_call.kwargs.tweet_id = StrVal(digits)
           /\ call.pc = "done" =>
                \E out \in ClientReplies :
                    /\ out.kind = call.outcome
                    /\ returned = CompleteCall(call.name,
                                               [op |-> plain.op, kwargs |-> plain.kwargs], out)
C17_Witness ==
    /\ call.name = "get_tweet_replies" /\ call.pc = "done" /\ call.outcome = "ok"
    /\ SuppliedRef = StrVal("https://twitter.com/user/status/42?s=1")
    /\ client_call = [op |-> "get_tweet_by_id", kwargs |-> [tweet_id |-> StrVal("42")]]
    /\ returned = JsonReplies("42")

\* C18: search_tweets with a product other than 'Top' and 'Latest' does
\* what it does with product 'Latest': the client's search_tweet is called
\* with the query and count of the call and product 'Latest', and when the
\* client returns, the records are returned and no error.
C18_InvalidProductIsLatest ==
    (/\ call.name = "search_tweets" /\ Supplied("query") /\ Supplied("product")
     /\ call.arguments.d["product"] \notin {StrVal("Top"), StrVal("Latest")}
     /\ call.pc # "called") =>
        /\ client_call.op = "search_tweet"
        /\ client_call.kwargs.product = StrVal("Latest")
        /\ client_call.kwargs.query = call.arguments.d["query"]
        /\ client_call.kwargs.count =
             (IF Supplied("count") THEN call.arguments.d["count"] ELSE IntVal(20))
        /\ (call.pc = "done" /\ call.outcome = "ok") =>
             /\ returned = JsonRecords("search_tweet")
             /\ ~StartsWith(returned, "Error") /\ ~JsonErrorObject(returned)
C18_Witness ==
    /\ call.name = "search_tweets" /\ call.pc = "done" /\ call.outcome = "ok"
    /\ call.arguments = Mapping([query |-> StrVal("python"), product |-> StrVal("Popular")])
    /\ client_call = [op |-> "search_tweet",
                      kwargs |-> [query |-> StrVal("python"), product |-> StrVal("Latest"),
                                  count |-> IntVal(20)]]
    /\ returned = JsonRecords("search_tweet")

\* The categories and the count bounds the catalogue declares.
Categories == {"trending", "for-you", "news", "sports", "entertainment"}
AtMost(name) == IF name = "get_trends" THEN 50 ELSE 100
WithinBounds(name, v) == v.t = "int" /\ 1 <= v.n /\ v.n <= AtMost(name)

\* C19: get_trends with an unknown or invalid category falls back to
\* 'trending': the client's get_trends is called with a category among
\* trending, for-you, news, sports and entertainment, 'trending' when the
\* supplied one is none of these.
C19_InvalidCategoryIsTrending ==
    (call.name = "get_trends" /\ call.pc # "called") =>
        /\ client_call.op = "get_trends"
        /\ client_call.kwargs.category \in {StrVal(c) : c \in Categories}
        /\ (Supplied("category") /\ call.arguments.d["category"] \notin {StrVal(c) : c \in Categories})
              => client_call.kwargs.category = StrVal("trending")

\* C20: a listing tool hands the client the count 20 when the call has
\* none, and otherwise a count within the tool's bounds, 1 to 100, and 1 to
\* 50 for get_trends, whatever count the call supplies.
C20_CountWithinBounds ==
    (call.name \in Listings /\ ClientCalled) =>
        IF Supplied("count") THEN WithinBounds(call.name, client_call.kwargs.count)
        ELSE client_call.kwargs.count = IntVal(20)

(***************************************************************************)
(* The catalogue in full: each tool's name with the properties and the     *)
(* required properties of its input schema.                                *)
(***************************************************************************)
Tool(name, properties, required) ==
    [name |-> name, properties |-> properties, required |-> required]

\* The catalogue as it was with the `authenticate` tool and its cookies.
ToolsWithAuthenticate ==
    <<Tool("authenticate", {"ct0", "auth_token"}, {"ct0", "auth_token"}),
      Tool("get_user_info", {"username"}, {"username"}),
      Tool("get_tweet_by_id", {"tweet_input"}, {"tweet_input"}),
      Tool("get_timeline", {"count"}, {}),
      Tool("get_latest_timeline", {"count"}, {}),
      Tool("search_tweets", {"query", "count", "product"}, {"query"}),
      Tool("get_tweet_replies", {"tweet_id", "tweet_input", "count"}, {}),
      Tool("get_trends", {"category", "count"}, {})>>

\* get_tools(): the list it returns, in its order.
Tools ==
    <<Tool("get_user_info", {"username"}, {"username"}),
      Tool("get_tweet_by_id", {"tweet_input"}, {"tweet_input"}),
      Tool("get_timeline", {"count"}, {}),
      Tool("get_latest_timeline", {"count"}, {}),
      Tool("search_tweets", {"query", "count", "product"}, {"query"}),
      Tool("get_tweet_replies", {"tweet_id", "tweet_input", "count"}, {}),
      Tool("get_trends", {"category", "count"}, {})>>

ListedNames == {Tools[i].name : i \in DOMAIN Tools}
CookieFields == {"ct0", "auth_token"}
\* A tool call that came back from behind _ensure_client.
ReachedDispatch(r) == r.kind = "tool" /\ r.client # NoClient
\* The call ran a handler: it did not end in the unknown-tool branch.
RanHandler(r) == r.result.blocks # <<TextContent(UnknownToolText(r.name))>>

\* C23: the names get_tools lists are unique and are the names execute_tool
\* dispatches to a handler: a call that reaches the dispatch runs a handler
\* exactly when its name is listed; the list has neither 'authenticate' nor
\* a disabled name, and no schema has or requires 'ct0' or 'auth_token'.
C23_CatalogueMatchesDispatch ==
    /\ Cardinality(ListedNames) = Len(Tools)
    /\ ListedNames \cap ({"authenticate"} \cup disabled) = {}
    /\ \A i \in DOMAIN Tools :
          (Tools[i].properties \cup Tools[i].required) \cap CookieFields = {}
    /\ ListedNames = get_tools
    /\ (response # NoResponse /\ ReachedDispatch(response)) =>
          (response.name \in ListedNames <=> RanHandler(response))
C23_Witness ==
    /\ response # NoResponse /\ ReachedDispatch(response)
    /\ response.name = "get_trends" /\ RanHandler(response)
    /\ "get_trends" \in ListedNames

\* The calls that hold a client _ensure_client returned to them.
HoldsClient(l) == l.client # NoClient

\* C24: whatever the interleaving of the calls and the pairs they carry,
\* the client _ensure_client(ct0, auth_token) returns to a call has the
\* cookies {ct0, auth_token} of that call.
C24_ClientOfCallersPair ==
    /\ \A t \in Tasks : HoldsClient(task[t]) => task[t].client.cookies = task[t].creds
    /\ HoldsClient(response) => response.client.cookies = response.creds
\* Two calls with differing pairs each hold a client at the same time.
C24_Witness ==
    \E t, u \in Tasks :
        /\ task[t].pc = "op" /\ task[u].pc = "op"
        /\ task[t].creds = <<"c1", "t1">> /\ task[u].creds = <<"c2", "t1">>
        /\ task[t].client = Client(1, <<"c1", "t1">>)
        /\ task[u].client = Client(2, <<"c2", "t1">>)

\* The client operation of task t's tool call returns or raises in this step.
OpReturnStep(t) == task[t].pc = "op" /\ task[t].kind = "tool" /\ task'[t] # task[t]
\* Task t's call ends in this step and its result goes back.
EndsWith1(t) == task'[t] = Idle /\ response' # NoResponse /\ response'.task = t
ErrorBlock(result) ==
    /\ Len(result.blocks) = 1
    /\ \/ StartsWith(result.blocks[1].text, "Error: ")
       \/ JsonErrorObject(result.blocks[1].text)
\* An enabled tool's call that holds a client ends with no operation invoked.
EndsBeforeOp(t) ==
    /\ task[t].pc # "op" /\ EndsWith1(t)
    /\ response'.kind = "tool" /\ response'.name \in EnabledNames
    /\ response'.client # NoClient

\* C25 as stated: an enabled tool's call invokes one client operation, and
\* two when the lookup is keyed by a username (get_user_info): after the
\* user is found a second operation is invoked; no operation is retried.
C25_Original ==
    [][\A t \in Tasks :
          OpReturnStep(t) =>
             IF task[t].name = "get_user_info"
             THEN \/ task'[t].pc = "op" /\ task'[t].op # task[t].op
                  \/ EndsWith1(t) /\ ErrorBlock(response'.result)
             ELSE EndsWith1(t)]_vars

\* C25 amended: an enabled tool's call that holds a client invokes one
\* client operation, get_user_info too, or none when reading its arguments
\* raises first; once the operation returns or fails the call ends in the
\* same step with one block, the records or the error, and invokes nothing
\* more.
C25_OneOperationNoRetry ==
    [][\A t \in Tasks :
          /\ OpReturnStep(t) =>
                /\ EndsWith1(t)
                /\ invoked_writes' = invoked_writes
                /\ \/ OneTextBlock(response'.result, JsonRecords(task[t].op))
                   \/ ErrorBlock(response'.result)
          /\ EndsBeforeOp(t) => ErrorBlock(response'.result)]_vars
\* get_user_info's one operation has failed and the error is on its way back.
C25_Witness ==
    /\ response.kind = "tool" /\ response.name = "get_user_info"
    /\ response.client # NoClient /\ response.args = ArgsNone
    /\ response.result.blocks = <<TextContent("Error: 401 Unauthorized")>>

\* The text task t's call returns in this step, PyNone when it returns none.
ReturnedText(t) ==
    IF response' # NoResponse /\ response'.task = t /\ Len(response'.result.blocks) = 1
    THEN response'.result.blocks[1].text ELSE PyNone
\* The call of task t suspends in _ensure_client in this step.
SuspendsInEnsure(t) == task'[t].pc \in {"waitlock", "probing"}

\* C27: execute_tool checks in a fixed order: the 'authenticate' notice, the
\* disabled set, the credentials, the client and its probe, the dispatch by
\* name.  'authenticate' and the disabled names return their static text
\* with credentials present, missing or rejected, and no client is built or
\* probed for them; with a credential missing every other name returns the
\* missing-credentials text and no client is built; a failed probe returns
\* the authentication failure whatever the name and the arguments.
C27_ChecksInOrder ==
    [][\A t \in Tasks :
          /\ ToolCallStep(t) =>
               IF CalledName(t) = "authenticate"
               THEN /\ ReturnedText(t) =
                         "Authentication is automatic using .env. The authenticate tool is deprecated."
                    /\ NoClientActivity
               ELSE IF CalledName(t) \in DisabledNames
               THEN /\ ReturnedText(t) =
                         "Tool '" \o CalledName(t) \o "' is disabled on this server for safety."
                    /\ NoClientActivity
               ELSE IF Falsy(environ'.TWITTER_CT0) \/ Falsy(environ'.TWITTER_AUTH_TOKEN)
               THEN /\ ReturnedText(t) = MissingCredentialsText
                    /\ NoClientActivity
               ELSE \/ SuspendsInEnsure(t)
                    \/ task'[t].pc = "op" /\ task'[t].client # NoClient
                    \/ ReturnedText(t) # PyNone /\ response'.client # NoClient
          /\ (ProbeFailStep(t) /\ response'.kind = "tool") =>
               \E msg \in ExcMsgs : ReturnedText(t) = ErrorText(AuthFailedMsg(msg))]_vars
\* A disabled tool has answered with its text while a credential is missing
\* and an earlier call's client is cached.
C27_Witness ==
    /\ response.kind = "tool" /\ response.name = "send_dm"
    /\ response.result.blocks = <<TextContent("Tool 'send_dm' is disabled on this server for safety.")>>
    /\ environ.TWITTER_CT0 = ""
    /\ client # NoClient /\ constructed = 1 /\ probes = 1

\* The cached client and the stored pair are both absent, or the pair is
\* the cookies of the client.
CachePaired ==
    /\ client = NoClient <=> last_credentials = NoCredentials
    /\ client # NoClient => client.cookies = last_credentials

\* C28: the cached client and the stored pair are set together: the client
\* is absent exactly when the pair is, and a cached client is one that was
\* built with the stored pair and whose probe returned; the cache changes
\* in no other step than the return of such a probe.
C28_ClientAndPairTogether ==
    /\ []CachePaired
    /\ [][(client' # client \/ last_credentials' # last_credentials) =>
             \E t \in Tasks :
                /\ ProbeOkStep(t)
                /\ client' = task[t].newclient /\ client'.cookies = task[t].creds
                /\ last_credentials' = task[t].creds]_vars
\* A second client has replaced the first, with its pair.
C28_Witness ==
    /\ client = Client(2, <<"c2", "t1">>)
    /\ last_credentials = <<"c2", "t1">>

\* Task t's call has its result on the way back: one content block.
ReturnsBlock(t) == response.task = t /\ Len(response.result.blocks) = 1
\* Every client operation a handler awaits returns or raises in the end.
OperationsEnd == \A t \in Tasks : []<>(task[t].pc # "op")
LockIsPassedOn == \A t \in Tasks : task[t].pc = "waitlock" ~> task[t].pc # "waitlock"
CallsReturn == \A t \in Tasks : task[t].pc # "idle" ~> ReturnsBlock(t)

\* C29 as stated: provided each probe returns or raises, every caller that
\* waits on the lock acquires it and every tool call returns a content block.
C29_Original == LockIsPassedOn /\ CallsReturn

\* C29 amended: provided each probe returns or raises, every caller that
\* waits on the lock acquires it, the lock being released on every exit from
\* _ensure_client, the one of a failed probe too; and provided each client
\* operation returns or raises as well, every tool call returns a content
\* block.
C29_LockReleasedCallsReturn == LockIsPassedOn /\ (OperationsEnd => CallsReturn)
\* A caller waits on the lock while another call's probe is out.
C29_Witness ==
    \E t, u \in Tasks :
        /\ task[t].pc = "waitlock" /\ lock_waiters = <<t>>
        /\ task[u].pc = "probing" /\ lock_holder = u

(***************************************************************************)
(* The two patched routines of the client, each on its own: the upstream's *)
(* response is a list of entries, and the routine returns or raises.       *)
(***************************************************************************)
MaxEntries == 3

\* A key that is not there: reading it raises KeyError.
Missing == "<missing>"

\* An entry of the response: its entryId, the tweet tweet_from_data builds
\* from it (PyNone: none), content.itemContent.value, content.items, and
\* whether its tweetDisplayType is SelfThread.
Entry(entryId, tweet, value, items, selfthread) ==
    [entryId |-> entryId, tweet |-> tweet, value |-> value, items |-> items,
     selfthread |-> selfthread]
\* An item of a thread: its entryId, its tweet, item.itemContent.value.
Item(entryId, tweet, value) == [entryId |-> entryId, tweet |-> tweet, value |-> value]

\* Result(results, fetch_next_result, next_cursor)
Result(results, fetch, next_cursor) ==
    [results |-> results, fetch |-> fetch, next_cursor |-> next_cursor]
\* partial(operation, tweet_id, cursor)
Partial(op, id, cursor) == [op |-> op, tweet_id |-> id, cursor |-> cursor]
\* A tweet that stands in a list: its id, and its replies when they were set.
Reply(id, replies) == [id |-> id, replies |-> replies]

\* How a routine ended: it returned a value, it returned None, or it raised.
Returned(value) == [done |-> TRUE, raised |-> FALSE, none |-> FALSE, type |-> "", msg |-> "",
                    value |-> value]
ReturnedNone == [done |-> TRUE, raised |-> FALSE, none |-> TRUE, type |-> "", msg |-> "",
                 value |-> PyNone]
RaisedError(type, msg) ==
    [done |-> TRUE, raised |-> TRUE, none |-> FALSE, type |-> type, msg |-> msg,
     value |-> PyNone]

\* No entry was the requested tweet and the routine returns None.
NoRequestedTweetIsNone == ReturnedNone

\* Line 116 when no entry was the requested tweet: `tweet` is still None
\* and `tweet.replies = ...` raises.
NoRequestedTweet ==
    RaisedError("AttributeError", "'NoneType' object has no attribute 'replies'")

\* The show-more cursor of a thread read without a guard, as lines 84-90 do.
ItemCursor(reply, acc) ==
    IF reply.value = Missing THEN [acc EXCEPT !.raised = "'itemContent'"]
    ELSE [acc EXCEPT !.sr_cursor = reply.value]

\* Lines 76-90: the items of a thread after its first.
RECURSIVE ThreadItems(_, _, _)
ThreadItems(items, i, acc) ==
    IF i > Len(items) \/ acc.raised # PyNone THEN acc
    ELSE LET reply == items[i]
             isTweet == Contains(reply.entryId, "tweet")
         IN IF Contains(reply.entryId, "tweetcomposer") THEN ThreadItems(items, i + 1, acc)
            ELSE IF isTweet /\ reply.tweet = PyNone THEN ThreadItems(items, i + 1, acc)
            ELSE LET a1 == IF isTweet THEN [acc EXCEPT !.replies = Append(@, reply.tweet)]
                           ELSE acc
                     a2 == IF Contains(reply.entryId, "cursor") THEN ItemCursor(reply, a1)
                           ELSE a1
                 IN ThreadItems(items, i + 1, a2)

\* Every such entry taken for an earlier tweet, wherever it stands.
OtherEntryAsAncestor(id, entry, acc) == [acc EXCEPT !.reply_to = Append(@, entry.tweet)]

\* Lines 69-100: an entry that is neither a cursor, nor related, nor the
\* requested tweet.
OtherEntry(id, entry, acc) ==
    IF acc.tweet = PyNone THEN [acc EXCEPT !.reply_to = Append(@, entry.tweet)]
    ELSE IF entry.items = Missing THEN [acc EXCEPT !.raised = "'items'"]
    ELSE LET t == ThreadItems(entry.items, 2,
                              [replies |-> <<>>, sr_cursor |-> PyNone, raised |-> PyNone])
             show_replies == IF t.sr_cursor = PyNone THEN PyNone
                             ELSE Partial("_show_more_replies", id, t.sr_cursor)
         IN IF t.raised # PyNone THEN [acc EXCEPT !.raised = t.raised]
            ELSE [acc EXCEPT
                    !.replies_list =
                        Append(@, Reply(entry.tweet, Result(t.replies, show_replies, t.sr_cursor))),
                    !.thread = IF entry.selfthread THEN <<entry.tweet>> \o t.replies ELSE @]

\* Lines 55-100: the loop over the entries.
RECURSIVE Classify(_, _, _, _)
Classify(id, entries, i, acc) ==
    IF i > Len(entries) \/ acc.raised # PyNone THEN acc
    ELSE LET entry == entries[i]
         IN IF StartsWith(entry.entryId, "cursor") THEN Classify(id, entries, i + 1, acc)
            ELSE IF entry.tweet = PyNone THEN Classify(id, entries, i + 1, acc)
            ELSE IF StartsWith(entry.entryId, "tweetdetailrelatedtweets")
            THEN Classify(id, entries, i + 1,
                          [acc EXCEPT !.related_tweets = Append(@, entry.tweet)])
            ELSE IF entry.entryId = "tweet-" \o id
            THEN Classify(id, entries, i + 1, [acc EXCEPT !.tweet = entry.tweet])
            ELSE Classify(id, entries, i + 1, OtherEntry(id, entry, acc))

\* The trailing cursor read without the guard, as the library did.
TrailingCursorUnguarded(entries, id) ==
    IF entries = <<>> THEN [raised |-> "list index out of range", cursor |-> PyNone, fetch |-> PyNone]
    ELSE LET last == entries[Len(entries)]
         IN IF StartsWith(last.entryId, "cursor")
            THEN IF last.value = Missing
                 THEN [raised |-> "'itemContent'", cursor |-> PyNone, fetch |-> PyNone]
                 ELSE [raised |-> PyNone, cursor |-> last.value,
                       fetch |-> Partial("_get_more_replies", id, last.value)]
            ELSE [raised |-> PyNone, cursor |-> PyNone, fetch |-> PyNone]

\* Lines 103-114 and 147-157: the continuation, from the last entry.
TrailingCursor(entries, id) ==
    IF entries = <<>> THEN [raised |-> "list index out of range", cursor |-> PyNone, fetch |-> PyNone]
    ELSE LET last == entries[Len(entries)]
         IN IF StartsWith(last.entryId, "cursor") /\ last.value # Missing
            THEN [raised |-> PyNone, cursor |-> last.value,
                  fetch |-> Partial("_get_more_replies", id, last.value)]
            ELSE [raised |-> PyNone, cursor |-> PyNone, fetch |-> PyNone]

ErrorType(msg) == IF msg = "list index out of range" THEN "IndexError" ELSE "KeyError"

\* _patched_get_tweet_by_id(self, tweet_id) on a response with these entries;
\* `errors` is the message of the response's first error, PyNone without one.
patched_get_tweet_by_id(id, errors, entries) ==
    IF errors # PyNone THEN RaisedError("TweetNotAvailable", errors)
    ELSE LET acc == Classify(id, entries, 1,
                             [tweet |-> PyNone, reply_to |-> <<>>, replies_list |-> <<>>,
                              related_tweets |-> <<>>, thread |-> PyNone, raised |-> PyNone])
             c == TrailingCursor(entries, id)
         IN IF acc.raised # PyNone THEN RaisedError("KeyError", acc.raised)
            ELSE IF c.raised # PyNone THEN RaisedError(ErrorType(c.raised), c.raised)
            ELSE IF acc.tweet = PyNone THEN NoRequestedTweet
            ELSE Returned([id |-> acc.tweet,
                           replies |-> Result(acc.replies_list, c.fetch, c.cursor),
                           reply_to |-> acc.reply_to,
                           related_tweets |-> acc.related_tweets,
                           thread |-> acc.thread])

\* Lines 138-144: the tweets of a further page.
RECURSIVE MoreResults(_, _)
MoreResults(entries, i) ==
    IF i > Len(entries) THEN <<>>
    ELSE LET entry == entries[i]
             rest == MoreResults(entries, i + 1)
         IN IF StartsWith(entry.entryId, "cursor") \/ StartsWith(entry.entryId, "label")
            THEN rest
            ELSE IF entry.tweet = PyNone THEN rest
            ELSE <<entry.tweet>> \o rest

\* _patched_get_more_replies(self, tweet_id, cursor) on a response with
\* these entries.
patched_get_more_replies(id, entries) ==
    LET c == TrailingCursor(entries, id)
    IN IF c.raised # PyNone THEN RaisedError(ErrorType(c.raised), c.raised)
       ELSE Returned(Result(MoreResults(entries, 1), c.fetch, c.cursor))

\* Entries as the upstream sends them: the requested tweet, an earlier
\* tweet, threads of replies with a show-more cursor that has its value and
\* one that lacks itemContent, a related tweet, an entry that yields no
\* tweet, and bottom cursors with and without itemContent.
RequestedId == "42"
EntryKinds ==
    {Entry("tweet-42", "42", Missing, Missing, FALSE),
     Entry("tweet-41", "41", Missing, Missing, FALSE),
     Entry("conversationthread-43", "43", Missing,
           <<Item("conversationthread-43-tweet-43", "43", Missing),
             Item("conversationthread-43-tweet-44", "44", Missing),
             Item("conversationthread-43-cursor-showmore-1", PyNone, "more43")>>, TRUE),
     Entry("conversationthread-45", "45", Missing,
           <<Item("conversationthread-45-tweet-45", "45", Missing),
             Item("conversationthread-45-cursor-showmore-2", PyNone, Missing)>>, FALSE),
     Entry("tweetdetailrelatedtweets-99", "99", Missing, Missing, FALSE),
     Entry("conversationthread-46", PyNone, Missing, <<>>, FALSE),
     Entry("cursor-bottom-1", PyNone, "next1", Missing, FALSE),
     Entry("cursor-bottom-2", PyNone, Missing, Missing, FALSE)}

EntryLists == UNION {[1..n -> EntryKinds] : n \in 0..MaxEntries}

Upstream(routine, errors, entries) ==
    [routine |-> routine, tweet_id |-> RequestedId, errors |-> errors, entries |-> entries]
Upstreams ==
    {Upstream(r, PyNone, es) : r \in {"get_tweet_by_id", "_get_more_replies"}, es \in EntryLists}
    \cup {Upstream("get_tweet_by_id", "No status found with that ID.", <<>>)}

RECURSIVE Join(_)
Join(ids) == IF ids = <<>> THEN ""
             ELSE IF Len(ids) = 1 THEN "\"" \o ids[1] \o "\""
             ELSE "\"" \o ids[1] \o "\", " \o Join(Tail(ids))

\* The text of a get_tweet_by_id or get_tweet_replies call whose client
\* call ended as `p` says.
HandlerText(name, id, p) ==
    IF name = "get_tweet_by_id"
    THEN IF p.raised
         THEN "{\n  \"error\": \"Failed to retrieve tweet: " \o p.msg
              \o "\",\n  \"tweet_id\": \"" \o id
              \o "\",\n  \"error_type\": \"" \o p.type \o "\"\n}"
         ELSE IF p.none
         THEN "{\n  \"error\": \"Tweet not found with ID: " \o id
              \o "\",\n  \"original_input\": \"" \o id
              \o "\",\n  \"extracted_id\": \"" \o id
              \o "\",\n  \"note\": \"Tweet may be deleted, private, or the ID may be invalid\"\n}"
         ELSE JsonTweet(p.value.id)
    ELSE IF p.raised THEN JsonError("Failed to get tweet replies: " \o p.msg)
         ELSE IF p.none THEN JsonError("Tweet not found")
         ELSE "{\n  \"original_tweet\": {\n    \"id\": \"" \o p.value.id
              \o "\"\n  },\n  \"replies\": ["
              \o Join([i \in DOMAIN p.value.replies.results |-> p.value.replies.results[i].id])
              \o "]\n}"

PatchInit ==
    /\ ServerWithClient
    /\ ResolverAtRest /\ CallAtRest
    /\ upstream \in Upstreams
    /\ produced = NotRun
    /\ handled = NotHandled

\* The patched routine runs on the upstream's response.
RoutineEnds ==
    /\ ~produced.done
    /\ produced' = IF upstream.routine = "get_tweet_by_id"
                   THEN patched_get_tweet_by_id(upstream.tweet_id, upstream.errors,
                                                upstream.entries)
                   ELSE patched_get_more_replies(upstream.tweet_id, upstream.entries)
    /\ UNCHANGED <<server_vars, resolver_vars, call_vars, upstream, handled>>

\* The handler that awaited client.get_tweet_by_id ends and execute_tool
\* returns its text.
HandlerEnds(name) ==
    /\ produced.done /\ handled = NotHandled
    /\ upstream.routine = "get_tweet_by_id"
    /\ handled' = [name |-> name, text |-> HandlerText(name, upstream.tweet_id, produced)]
    /\ UNCHANGED <<server_vars, resolver_vars, call_vars, upstream, produced>>

PatchNext ==
    \/ RoutineEnds
    \/ \E name \in {"get_tweet_by_id", "get_tweet_replies"} : HandlerEnds(name)

PatchSpec == PatchInit /\ [][PatchNext]_vars

(***************************************************************************)
(* Claims about the patched routines.                                      *)
(***************************************************************************)
Ran(routine) == produced.done /\ upstream.routine = routine
LastEntry == upstream.entries[Len(upstream.entries)]
\* The page the routine produced: the tweet's replies, or the further page.
Page == IF upstream.routine = "get_tweet_by_id" THEN produced.value.replies
        ELSE produced.value
\* The first place of the requested tweet's entry, 0 when there is none.
PlaceOfRequested ==
    LET at == {i \in DOMAIN upstream.entries : upstream.entries[i].entryId = "tweet-42"}
    IN IF at = {} THEN 0 ELSE CHOOSE i \in at : \A j \in at : i <= j
\* Entries the loop of get_tweet_by_id cannot take as a thread of replies:
\* a tweet with no items, and a thread whose show-more cursor lacks
\* itemContent.
Unreadable == {"tweet-41", "conversationthread-45"}
LoopRaises ==
    /\ PlaceOfRequested # 0
    /\ \E i \in DOMAIN upstream.entries :
          i > PlaceOfRequested /\ upstream.entries[i].entryId \in Unreadable
\* The continuation the last entry stands for: its value, or none.
TokenOfLast ==
    IF LastEntry.entryId \in {"cursor-bottom-1"} THEN "next1" ELSE PyNone
FetchOfLast ==
    IF LastEntry.entryId \in {"cursor-bottom-1"}
    THEN [op |-> "_get_more_replies", tweet_id |-> "42", cursor |-> "next1"]
    ELSE PyNone
ContinuationOfLast == Page.next_cursor = TokenOfLast /\ Page.fetch = FetchOfLast

\* C21 as stated: in both routines the continuation of the page is given by
\* the last entry alone: a cursor with its value gives that value and a
\* fetch-next bound to (tweet id, value); a cursor without its field, or no
\* cursor, gives none for both, and the routine returns without raising.
C21_Original ==
    (produced.done /\ upstream.errors = PyNone /\ upstream.entries # <<>>) =>
        /\ ~produced.raised
        /\ ContinuationOfLast

\* C21 amended: ... gives none for both, and the last entry makes neither
\* routine raise: get_more_replies returns, and get_tweet_by_id returns
\* unless its loop has raised or has not found the requested tweet; every
\* page produced has the continuation of its last entry.
C21_ContinuationFromLastEntry ==
    (produced.done /\ upstream.errors = PyNone /\ upstream.entries # <<>>) =>
        /\ Ran("_get_more_replies") => ~produced.raised
        /\ Ran("get_tweet_by_id") =>
              (produced.raised <=> (PlaceOfRequested = 0 \/ LoopRaises))
        /\ ~produced.raised => ContinuationOfLast
\* get_tweet_by_id has returned the tweet from a response that ends in a
\* cursor without itemContent.
C21_Witness ==
    /\ Ran("get_tweet_by_id")
    /\ upstream.entries = <<Entry("tweet-42", "42", Missing, Missing, FALSE),
                            Entry("cursor-bottom-2", PyNone, Missing, Missing, FALSE)>>
    /\ ~produced.raised
    /\ produced.value.replies = [results |-> <<>>, fetch |-> PyNone, next_cursor |-> PyNone]

\* A cursor of the response, an entry or an item of a thread, lacks its
\* itemContent.
CursorLacksItemContent ==
    \E i \in DOMAIN upstream.entries :
        LET e == upstream.entries[i]
        IN \/ StartsWith(e.entryId, "cursor") /\ e.value = Missing
           \/ /\ e.items # Missing
              /\ \E j \in DOMAIN e.items :
                    Contains(e.items[j].entryId, "cursor") /\ e.items[j].value = Missing

\* C22: when a cursor entry of the upstream's response lacks its
\* itemContent, no tool call returns an error that mentions itemContent.
C22_ItemContentNeverSurfaces ==
    (handled # NotHandled /\ CursorLacksItemContent) => ~Contains(handled.text, "itemContent")

\* The tweets of the entries at the places `places`, in the entries' order.
RECURSIVE TweetsAt(_, _)
TweetsAt(places, i) ==
    IF i > Len(upstream.entries) THEN <<>>
    ELSE IF i \in places THEN <<upstream.entries[i].tweet>> \o TweetsAt(places, i + 1)
    ELSE TweetsAt(places, i + 1)
IsCursor(e) == e.entryId \in {"cursor-bottom-1", "cursor-bottom-2"}
IsRelated(e) == e.entryId = "tweetdetailrelatedtweets-99"
IsRequested(e) == e.entryId = "tweet-42"
IsOther(e) == ~IsCursor(e) /\ ~IsRelated(e) /\ ~IsRequested(e)
Places(Is(_)) == {i \in DOMAIN upstream.entries : Is(upstream.entries[i])}
OthersBefore == {i \in Places(IsOther) : i < PlaceOfRequested}
OthersAfter == {i \in Places(IsOther) : i > PlaceOfRequested}
HasTweet == {i \in DOMAIN upstream.entries : upstream.entries[i].tweet # PyNone}
IdsOf(tweets) == [i \in DOMAIN tweets |-> tweets[i].id]

\* C26 as stated: cursors are skipped, related entries go to
\* related_tweets, the entry tweet-<id> becomes the returned tweet, every
\* other entry before it goes to reply_to and every other entry after it
\* to the replies page, each list in the entries' order.
C26_Original ==
    (Ran("get_tweet_by_id") /\ upstream.errors = PyNone /\ PlaceOfRequested # 0) =>
        /\ ~produced.raised
        /\ produced.value.id = "42"
        /\ produced.value.related_tweets = TweetsAt(Places(IsRelated), 1)
        /\ produced.value.reply_to = TweetsAt(OthersBefore, 1)
        /\ IdsOf(produced.value.replies.results) = TweetsAt(OthersAfter, 1)

\* C26 amended: the same of the entries from which a tweet can be built;
\* cursors and entries that yield no tweet are skipped, and an entry after
\* the requested tweet is read as a thread of replies, which raises when it
\* has no items or its show-more cursor lacks itemContent.
C26_EntriesClassifiedInOrder ==
    (Ran("get_tweet_by_id") /\ upstream.errors = PyNone /\ PlaceOfRequested # 0) =>
        IF LoopRaises THEN produced.raised /\ produced.type = "KeyError"
        ELSE /\ ~produced.raised
             /\ produced.value.id = "42"
             /\ produced.value.related_tweets = TweetsAt(Places(IsRelated) \cap HasTweet, 1)
             /\ produced.value.reply_to = TweetsAt(OthersBefore \cap HasTweet, 1)
             /\ IdsOf(produced.value.replies.results) = TweetsAt(OthersAfter \cap HasTweet, 1)
\* An earlier tweet, the requested tweet and a thread of replies.
C26_Witness ==
    /\ Ran("get_tweet_by_id") /\ ~produced.raised
    /\ Len(upstream.entries) = 3
    /\ upstream.entries[1].entryId = "tweet-41"
    /\ upstream.entries[2].entryId = "tweet-42"
    /\ upstream.entries[3].entryId = "conversationthread-43"
    /\ produced.value.reply_to = <<"41">>
    /\ IdsOf(produced.value.replies.results) = <<"43">>
    /\ produced.value.replies.results[1].replies.results = <<"44">>

\* The response has an entry tweet-<requested id> from which a tweet is built.
RequestedIsThere ==
    \E i \in DOMAIN upstream.entries :
        upstream.entries[i].entryId = "tweet-42" /\ upstream.entries[i].tweet # PyNone

\* C30: patched get_tweet_by_id returns a tweet with its replies, reply_to
\* and related_tweets set, or raises, and raises whenever the entries are
\* empty or hold no entry for the requested tweet; the handlers then return
\* their 'Failed to ...' object and never the 'Tweet not found' one.
C30_TweetOrRaise ==
    /\ Ran("get_tweet_by_id") =>
          /\ ~produced.none
          /\ ~produced.raised =>
                /\ produced.value.id = "42"
                /\ {"replies", "reply_to", "related_tweets"} \subseteq DOMAIN produced.value
                /\ DOMAIN produced.value.replies = {"results", "fetch", "next_cursor"}
          /\ (upstream.entries = <<>> \/ ~RequestedIsThere) => produced.raised
    /\ handled # NotHandled =>
          /\ ~Contains(handled.text, "Tweet not found")
          /\ ~RequestedIsThere =>
                StartsWith(handled.text,
                           IF handled.name = "get_tweet_by_id"
                           THEN "{\n  \"error\": \"Failed to retrieve tweet: "
                           ELSE "{\n  \"error\": \"Failed to get tweet replies: ")
\* get_tweet_replies has been called for a tweet the response has no entry
\* for, and the routine's AttributeError is in the returned object.
C30_Witness ==
    /\ handled.name = "get_tweet_replies"
    /\ upstream.entries = <<Entry("tweet-41", "41", Missing, Missing, FALSE)>>
    /\ produced.raised /\ produced.type = "AttributeError"
    /\ handled.text = "{\n  \"error\": \"Failed to get tweet replies: 'NoneType' object has no attribute 'replies'\"\n}"

====
